---------------------------- MODULE Spec2Model ----------------------------
(***************************************************************************)
(* A model of the request authentication and authorization pipeline of     *)
(* keycloak-gatekeeper: the cookie envelope (cookies.go), the token        *)
(* verification (oauth.go) and the middleware chain (middleware.go).       *)
(*                                                                         *)
(* Strings are sequences of one-character strings, so that len(), slicing, *)
(* strings.Split and strconv.Itoa are computed and not assumed.  A cookie  *)
(* value is a sequence of bytes; the values the model drops carry at       *)
(* position i the byte tag i, so any loss, repeat or reordering of bytes   *)
(* changes the value.                                                      *)
(***************************************************************************)
EXTENDS Integers, Sequences, FiniteSets, TLC

VARIABLES
    config,     \* r.config: the proxy's configuration, fixed after startup
    now,        \* time.Now(), in seconds
    phase,      \* cookie handlers: "idle" or "handled"
    req,        \* the incoming request: Host, URL, Cookies (the parsed Cookie header)
    call,       \* the cookie operation the handler ran, with its arguments
    resp,       \* the response: the Set-Cookie headers written, in order
    panicked,   \* the handler ended in a runtime panic
    pc,         \* middleware chain: the stage that handles the request next
    keep,       \* entrypointMiddleware: the path the request came with
    resource,   \* the Resource whose chain serves the request
    scope,      \* the RequestScope of the request: Identity, AccessDenied
    status,     \* the response status written (0: none yet)
    header,     \* the response headers set, other than Set-Cookie
    skipCheck,  \* the request context carries gorilla/csrf's skip mark
    csrf,       \* what the CSRF protect stage did with the request
    fwd,        \* the identity headers set on the forwarded request
    trace,      \* the handlers that served the request, in order
    auth,       \* what the authentication stage did: calls made, results
    adm,        \* what the admission stage did: the checks it evaluated
    upstream,   \* the number of times the request was sent upstream
    secure,     \* the answer of the secure filter: "none" yet, "passed", "failed"
    tasks,      \* concurrent handling: the requests in flight, one record per task
    heap,       \* the RequestScope objects allocated, by address
    idp,        \* the provider: the refresh tokens it has redeemed, and its policy
    store       \* the refresh store: the value held under each key

cookieVars == <<phase, call, panicked>>

sharedVars == <<tasks, heap, idp, store>>

chainVars == <<pc, keep, resource, scope, status, header, skipCheck, csrf, fwd, trace, auth, adm, upstream, secure>>

vars == <<config, now, req, resp, phase, call, panicked, pc, keep, resource, scope, status, header, skipCheck, csrf, fwd, trace, auth, adm, upstream, secure, tasks, heap, idp, store>>

----------------------------------------------------------------------------
(* Bounds of the model.                                                    *)

\* the longest value dropped spans MaxChunks cookies
MaxChunks == 3
\* the highest chunk index a request cookie carries
MaxReqChunk == 2
\* the clock advances at most this many seconds over a run
MaxTicks == 1
\* the number of distinct role names, and of group names, of a policy case
MaxNames == 2

----------------------------------------------------------------------------
(* Strings.                                                                *)

Digits == <<"0", "1", "2", "3", "4", "5", "6", "7", "8", "9">>

\* strconv.Itoa for n >= 0
RECURSIVE Itoa(_)
Itoa(n) == IF n < 10 THEN <<Digits[n + 1]>> ELSE Itoa(n \div 10) \o <<Digits[(n % 10) + 1]>>

\* the index of the first c in s from index i on, or 0
IndexFrom(s, c, i) ==
    IF \E k \in i..Len(s) : s[k] = c
    THEN CHOOSE k \in i..Len(s) : s[k] = c /\ \A j \in i..(k - 1) : s[j] # c
    ELSE 0

\* strings.Split(s, sep)[0]: s up to its first sep, all of s without one
SplitFirst(s, sep) ==
    LET k == IndexFrom(s, sep, 1) IN IF k = 0 THEN s ELSE SubSeq(s, 1, k - 1)

\* strings.Split(s, sep) for a one-character sep
RECURSIVE Split(_, _)
Split(s, sep) ==
    LET k == IndexFrom(s, sep, 1) IN
    IF k = 0 THEN <<s>> ELSE <<SubSeq(s, 1, k - 1)>> \o Split(SubSeq(s, k + 1, Len(s)), sep)

\* strings.HasPrefix and strings.TrimPrefix
HasPrefix(s, prefix) ==
    Len(prefix) <= Len(s) /\ SubSeq(s, 1, Len(prefix)) = prefix

TrimPrefix(s, prefix) ==
    IF HasPrefix(s, prefix) THEN SubSeq(s, Len(prefix) + 1, Len(s)) ELSE s

\* strings.HasSuffix
HasSuffix(s, suffix) ==
    Len(suffix) <= Len(s) /\ SubSeq(s, Len(s) - Len(suffix) + 1, Len(s)) = suffix

\* strings.Join of strings of characters
RECURSIVE JoinStrings(_, _)
JoinStrings(a, sep) ==
    IF Len(a) = 0 THEN <<>>
    ELSE IF Len(a) = 1 THEN a[1] ELSE a[1] \o sep \o JoinStrings(Tail(a), sep)

\* Go's value[lo:hi]
Slice(s, lo, hi) == SubSeq(s, lo + 1, hi)

\* the printable characters of ASCII in the order of their byte values: 0x20
\* to 0x5f, and 0x61 to 0x7e (a string of the model cannot hold 0x60, the
\* grave accent)
PrintableLow ==
    << " ", "!", "\"", "#", "$", "%", "&", "'", "(", ")", "*", "+", ",", "-", ".", "/",
       "0", "1", "2", "3", "4", "5", "6", "7", "8", "9", ":", ";", "<", "=", ">", "?",
       "@", "A", "B", "C", "D", "E", "F", "G", "H", "I", "J", "K", "L", "M", "N", "O",
       "P", "Q", "R", "S", "T", "U", "V", "W", "X", "Y", "Z", "[", "\\", "]", "^", "_" >>

PrintableHigh ==
    << "a", "b", "c", "d", "e", "f", "g", "h", "i", "j", "k", "l", "m", "n", "o",
       "p", "q", "r", "s", "t", "u", "v", "w", "x", "y", "z", "{", "|", "}", "~" >>

PrintableBytes ==
    {PrintableLow[i] : i \in 1..Len(PrintableLow)}
        \cup {PrintableHigh[i] : i \in 1..Len(PrintableHigh)}

\* the byte value of a printable character, and the character of a byte value
ByteOf(c) ==
    IF \E j \in 1..Len(PrintableLow) : PrintableLow[j] = c
    THEN 31 + CHOOSE j \in 1..Len(PrintableLow) : PrintableLow[j] = c
    ELSE 96 + CHOOSE j \in 1..Len(PrintableHigh) : PrintableHigh[j] = c

CharOf(b) == IF b < 96 THEN PrintableLow[b - 31] ELSE PrintableHigh[b - 96]

\* []byte(s) and string(b) for strings of printable characters
BytesOf(s) == [k \in 1..Len(s) |-> ByteOf(s[k])]
StringOf(b) == [k \in 1..Len(b) |-> CharOf(b[k])]

\* the alphabet of base64.StdEncoding
StdAlphabet ==
    << "A", "B", "C", "D", "E", "F", "G", "H", "I", "J", "K", "L", "M",
       "N", "O", "P", "Q", "R", "S", "T", "U", "V", "W", "X", "Y", "Z",
       "a", "b", "c", "d", "e", "f", "g", "h", "i", "j", "k", "l", "m",
       "n", "o", "p", "q", "r", "s", "t", "u", "v", "w", "x", "y", "z",
       "0", "1", "2", "3", "4", "5", "6", "7", "8", "9", "+", "/" >>

\* the text of an encoded token of n bytes: byte i is character i of the
\* base64 alphabet, taken round
Bytes(n) == [i \in 1..n |-> StdAlphabet[((i - 1) % 64) + 1]]

----------------------------------------------------------------------------
(* Program constants and literals of cookies.go.                           *)

MaxCookieSize == 4069
ClearDuration == -36000
RefreshScanLimit == 600
HttpOnlyAttr == <<"H", "t", "t", "p", "O", "n", "l", "y", ";", " ">>
ExpiresAttr == <<"E","x","p","i","r","e","s","=","M","o","n",","," ","0","2"," ","J","a","n"," ","2","0","0","6"," ","0","3",":","0","4",":","0","5"," ","M","S","T",";"," ">>
SecureAttr == <<"S", "e", "c", "u", "r", "e">>

\* the zero time.Time: http.SetCookie writes no Expires attribute for it
ZeroTime == [IsZero |-> TRUE, Unix |-> 0]
TimeAt(t) == [IsZero |-> FALSE, Unix |-> t]

----------------------------------------------------------------------------
(* cookies.go                                                              *)

Letters ==
    {"a", "b", "c", "d", "e", "f", "g", "h", "i", "j", "k", "l", "m", "n", "o", "p", "q",
     "r", "s", "t", "u", "v", "w", "x", "y", "z", "A", "B", "C", "D", "E", "F", "G", "H",
     "I", "J", "K", "L", "M", "N", "O", "P", "Q", "R", "S", "T", "U", "V", "W", "X", "Y",
     "Z"}

\* a byte a cookie domain name may hold
isDomainByte(c) == c \in Letters \cup {Digits[d] : d \in 1..10} \cup {"-", "."}

\* the loop of net/http isCookieDomainName over v past its first o bytes: only
\* letters, digits, - and ., a letter somewhere, no - after a dot or at the
\* start or the end, no dot after a dot or a - or at the start, and no label
\* of more than 63 bytes
cookieDomainNameFrom(v, o) ==
    /\ \A i \in (o + 1)..Len(v) : isDomainByte(v[i])
    /\ \E i \in (o + 1)..Len(v) : v[i] \in Letters
    /\ \A i \in (o + 1)..Len(v) :
          /\ v[i] = "-" => i > o + 1 /\ v[i - 1] # "."
          /\ v[i] = "." => i > o + 1 /\ v[i - 1] \notin {".", "-"}
    /\ Len(v) > o => v[Len(v)] # "-"
    /\ \A i \in (o + 1)..(Len(v) - 63) : \E j \in i..(i + 63) : v[j] = "."

\* net/http isCookieDomainName: 1 to 255 bytes, one leading dot is passed over
isCookieDomainName(v) ==
    Len(v) \in 1..255 /\ cookieDomainNameFrom(v, IF v[1] = "." THEN 1 ELSE 0)

\* the value of a decimal digit
DigitValue(c) == CHOOSE d \in 0..9 : Digits[d + 1] = c

\* an IPv4 address in dotted decimal (net.ParseIP, and no colon): four
\* fields of 1 to 3 digits, none above 255 and none of several digits
\* beginning with 0
isIPv4(v) ==
    /\ Len(v) \in 7..15
    /\ \A i \in 1..Len(v) : v[i] \in {Digits[d] : d \in 1..10} \cup {"."}
    /\ Cardinality({i \in 1..Len(v) : v[i] = "."}) = 3
    /\ v[1] # "." /\ v[Len(v)] # "."
    /\ \A i \in 2..Len(v) : v[i] = "." => v[i - 1] # "."
    /\ \A i \in 1..(Len(v) - 3) : \E j \in i..(i + 3) : v[j] = "."
    /\ \A i \in 1..(Len(v) - 2) :
          ((i = 1 \/ v[i - 1] = ".") /\ v[i + 1] # "." /\ v[i + 2] # ".")
              => 100 * DigitValue(v[i]) + 10 * DigitValue(v[i + 1]) + DigitValue(v[i + 2]) <= 255
    /\ \A i \in 1..(Len(v) - 1) :
          ((i = 1 \/ v[i - 1] = ".") /\ v[i] = "0") => v[i + 1] = "."

\* net/http validCookieDomain
validCookieDomain(v) == isCookieDomainName(v) \/ isIPv4(v)

\* the separators of HTTP: with the space they are the printable bytes that
\* are no token bytes
Separators ==
    {"(", ")", "<", ">", "@", ",", ";", ":", "\\", "\"", "/", "[", "]", "?", "=", "{", "}"}

TokenBytes == PrintableBytes \ (Separators \cup {" "})

\* net/http isCookieNameValid: a name that is not empty and holds token
\* bytes only
isCookieNameValid(name) ==
    Len(name) > 0 /\ \A i \in 1..Len(name) : name[i] \in TokenBytes

\* the bytes of a cookie value: the printable bytes other than ", ; and \
ValueBytes == PrintableBytes \ {"\"", ";", "\\"}

\* net/http validCookieValueByte: 0x20 <= b < 0x7f and b is none of ", ; and \
validCookieValueByte(b) == b \in ValueBytes

\* the value v, of valid bytes only, as it is written: in double quotes when
\* it holds a space or a comma
quoteCookieValue(v) ==
    IF Len(v) > 0 /\ \E i \in 1..Len(v) : v[i] \in {" ", ","}
    THEN <<"\"">> \o v \o <<"\"">> ELSE v

\* net/http sanitizeCookieValue: the bytes that are no valid value bytes are
\* dropped
sanitizeCookieValue(v) == quoteCookieValue(SelectSeq(v, validCookieValueByte))

\* the Domain attribute Cookie.String writes: a valid cookie domain without
\* its leading dot, none (an empty Domain here) for any other
writtenDomain(d) ==
    IF Len(d) > 0 /\ validCookieDomain(d) THEN (IF d[1] = "." THEN Tail(d) ELSE d) ELSE <<>>

\* http.SetCookie: the Set-Cookie header Cookie.String gives is added to the
\* response; for a cookie whose name is not valid it gives none and nothing
\* is added
SetCookie(w, cookie) ==
    IF isCookieNameValid(cookie.Name)
    THEN Append(w, [cookie EXCEPT !.Value = sanitizeCookieValue(@),
                                  !.Domain = writtenDomain(@)])
    ELSE w

\* dropCookie: the response cookies w with one more Set-Cookie
dropCookieBadExpiry(w, host, name, value, duration) ==
    LET domain == IF config.CookieDomain # <<>> THEN config.CookieDomain
                  ELSE SplitFirst(host, ":")
        expires == IF duration # 0 THEN TimeAt(now + duration) ELSE ZeroTime
    IN  SetCookie(w, [Name |-> name, Value |-> value, Domain |-> domain, Path |-> <<"/">>,
                      HttpOnly |-> config.HTTPOnlyCookie, Secure |-> config.SecureCookie,
                      Expires |-> expires])

dropCookie(w, host, name, value, duration) ==
    LET domain == IF config.CookieDomain # <<>> THEN config.CookieDomain
                  ELSE SplitFirst(host, ":")
        expires == IF ~config.EnableSessionCookies /\ duration # 0
                   THEN TimeAt(now + duration) ELSE ZeroTime
    IN  SetCookie(w, [Name |-> name, Value |-> value, Domain |-> domain, Path |-> <<"/">>,
                      HttpOnly |-> config.HTTPOnlyCookie, Secure |-> config.SecureCookie,
                      Expires |-> expires])

getMaxCookieChunkLength(host, cookieName) ==
    MaxCookieSize - Len(cookieName)
      - (IF config.CookieDomain # <<>> THEN Len(config.CookieDomain)
         ELSE Len(SplitFirst(host, ":")))
      - (IF config.HTTPOnlyCookie THEN Len(HttpOnlyAttr) ELSE 0)
      - (IF ~config.EnableSessionCookies THEN Len(ExpiresAttr) ELSE 0)
      - (IF config.SecureCookie THEN Len(SecureAttr) ELSE 0)

\* the end of the slice that starts at i (lines 79-82)
chunkEndShort(i, max, n) == IF i + max >= n THEN n ELSE i + max - 1

chunkEnd(i, max, n) == IF i + max > n THEN n ELSE i + max

\* the name of the cookie that carries the slice starting at i (line 83)
chunkNameFromZero(name, i, max) == name \o <<"-">> \o Itoa((i \div max) - 1)

chunkName(name, i, max) == name \o <<"-">> \o Itoa(i \div max)

\* the loop of dropCookieWithChunks from index i on; max > 0
RECURSIVE chunkLoop(_, _, _, _, _, _, _)
chunkLoop(w, host, name, value, duration, max, i) ==
    IF i < Len(value)
    THEN chunkLoop(dropCookie(w, host, chunkName(name, i, max),
                              Slice(value, i, chunkEnd(i, max, Len(value))), duration),
                   host, name, value, duration, max, i + max)
    ELSE w

\* dropCookieWithChunks: the response cookies after the call, and whether it
\* panicked.  A budget below zero makes value[0:max] fault before anything is
\* written; a budget of zero writes the first cookie and faults on i/max.
dropCookieWithChunks(w, host, name, value, duration) ==
    LET max == getMaxCookieChunkLength(host, name) IN
    IF Len(value) <= max
    THEN [w |-> dropCookie(w, host, name, value, duration), panic |-> FALSE]
    ELSE IF max < 0 THEN [w |-> w, panic |-> TRUE]
    ELSE IF max = 0
    THEN [w |-> dropCookie(w, host, name, <<>>, duration), panic |-> TRUE]
    ELSE [w |-> chunkLoop(dropCookie(w, host, name, Slice(value, 0, max), duration),
                          host, name, value, duration, max, max),
          panic |-> FALSE]

dropAccessTokenCookie(w, host, value, duration) ==
    dropCookieWithChunks(w, host, config.CookieAccessName, value, duration)

dropRefreshTokenCookie(w, host, value, duration) ==
    dropCookieWithChunks(w, host, config.CookieRefreshName, value, duration)

Sextet(n, k) == StdAlphabet[((n \div (64 ^ (3 - k))) % 64) + 1]

\* base64.StdEncoding.EncodeToString: three bytes give four characters, a
\* last group of one or two bytes is padded with =
RECURSIVE EncodeToString(_)
EncodeToString(b) ==
    IF Len(b) = 0 THEN <<>>
    ELSE IF Len(b) = 1
    THEN LET n == b[1] * 65536 IN <<Sextet(n, 0), Sextet(n, 1), "=", "=">>
    ELSE IF Len(b) = 2
    THEN LET n == b[1] * 65536 + b[2] * 256 IN <<Sextet(n, 0), Sextet(n, 1), Sextet(n, 2), "=">>
    ELSE LET n == b[1] * 65536 + b[2] * 256 + b[3]
         IN  <<Sextet(n, 0), Sextet(n, 1), Sextet(n, 2), Sextet(n, 3)>>
             \o EncodeToString(SubSeq(b, 4, Len(b)))

\* url.ParseRequestURI of a request target without escapes: the path, and the
\* query after the first ?; a target whose only ? is its last character has
\* an empty query and ForceQuery set
ParseRequestURI(target) ==
    LET k == IndexFrom(target, "?", 1) IN
    IF k = 0 THEN [Path |-> target, RawQuery |-> <<>>, ForceQuery |-> FALSE]
    ELSE IF k = Len(target)
    THEN [Path |-> SubSeq(target, 1, k - 1), RawQuery |-> <<>>, ForceQuery |-> TRUE]
    ELSE [Path |-> SubSeq(target, 1, k - 1), RawQuery |-> SubSeq(target, k + 1, Len(target)),
          ForceQuery |-> FALSE]

\* the path alone, without the query
RequestURIPathOnly(u) == IF u.Path = <<>> THEN <<"/">> ELSE u.Path

\* req.URL.RequestURI(): the path, / for an empty one, then ? and the query
RequestURI(u) ==
    (IF u.Path = <<>> THEN <<"/">> ELSE u.Path)
    \o (IF u.ForceQuery \/ u.RawQuery # <<>> THEN <<"?">> \o u.RawQuery ELSE <<>>)

requestURICookie == <<"r", "e", "q", "u", "e", "s", "t", "_", "u", "r", "i">>
requestStateCookie == <<"r", "e", "q", "u", "e", "s", "t", "_", "s", "t", "a", "t", "e">>

\* writeStateParameterCookie with uuid the value uuid.NewV4().String() gave:
\* the response cookies afterwards and the state returned
writeStateParameterCookie(w, host, u, uuid) ==
    LET requestURI == EncodeToString(BytesOf(RequestURI(u)))
        w1 == dropCookie(w, host, requestURICookie, requestURI, 0)
        w2 == dropCookie(w1, host, requestStateCookie, uuid, 0)
    IN  [w |-> w2, state |-> uuid]

\* req.Cookie(name) succeeds: some cookie of the request has that name
HasCookie(cookies, name) == \E k \in 1..Len(cookies) : cookies[k].Name = name

\* the scan of the divided cookies: from index i, below limit, up to the first
\* index the request has no cookie for
RECURSIVE clearLoop(_, _, _, _, _, _)
clearLoop(w, host, cookies, name, i, limit) ==
    IF i < limit /\ HasCookie(cookies, name \o <<"-">> \o Itoa(i))
    THEN clearLoop(dropCookie(w, host, name \o <<"-">> \o Itoa(i), <<>>, ClearDuration),
                   host, cookies, name, i + 1, limit)
    ELSE w

clearRefreshTokenCookie(w, host, cookies) ==
    clearLoop(dropCookie(w, host, config.CookieRefreshName, <<>>, ClearDuration),
              host, cookies, config.CookieRefreshName, 1, RefreshScanLimit)

clearAccessTokenCookie(w, host, cookies) ==
    clearLoop(dropCookie(w, host, config.CookieAccessName, <<>>, ClearDuration),
              host, cookies, config.CookieAccessName, 1, Len(cookies))

clearAllCookies(w, host, cookies) ==
    clearRefreshTokenCookie(clearAccessTokenCookie(w, host, cookies), host, cookies)


\* read(name): the envelope reassembled from a list of cookies, the cookie
\* name first, then name-1, name-2, ... up to the first index that is missing
RECURSIVE readChunks(_, _, _)
readChunks(cookies, name, i) ==
    IF HasCookie(cookies, name \o <<"-">> \o Itoa(i))
    THEN LET k == CHOOSE j \in 1..Len(cookies) :
                     /\ cookies[j].Name = name \o <<"-">> \o Itoa(i)
                     /\ \A h \in 1..(j - 1) : cookies[h].Name # cookies[j].Name
         IN  cookies[k].Value \o readChunks(cookies, name, i + 1)
    ELSE <<>>

NoEnvelope == [found |-> FALSE, value |-> <<>>]

readEnvelope(cookies, name) ==
    IF ~HasCookie(cookies, name) THEN NoEnvelope
    ELSE LET k == CHOOSE j \in 1..Len(cookies) :
                     /\ cookies[j].Name = name
                     /\ \A h \in 1..(j - 1) : cookies[h].Name # name
         IN  [found |-> TRUE, value |-> cookies[k].Value \o readChunks(cookies, name, 1)]

----------------------------------------------------------------------------
(* Tokens and claims.  A token is a record: whether it parses as a JWT, the *)
(* answer of the provider's key set and time check for it (verify), its    *)
(* expiry, and the claims the identity is built from.  A claim value is a  *)
(* tagged JSON value.                                                      *)

JString(s) == [t |-> "string", v |-> s]
JList(l) == [t |-> "list", v |-> l]
JNumber(n) == [t |-> "number", v |-> n]
JBool(b) == [t |-> "bool", v |-> b]
JObject == [t |-> "object", v |-> <<>>]

Range(s) == {s[i] : i \in 1..Len(s)}

\* jose.Claims.StringClaim
StringClaim(claims, name) ==
    IF name \notin DOMAIN claims THEN [v |-> <<>>, found |-> FALSE, err |-> FALSE]
    ELSE IF claims[name].t = "string" THEN [v |-> claims[name].v, found |-> TRUE, err |-> FALSE]
    ELSE [v |-> <<>>, found |-> FALSE, err |-> TRUE]

\* jose.Claims.StringsClaim: a list all of whose elements are strings
StringsClaim(claims, name) ==
    IF name \notin DOMAIN claims THEN [v |-> <<>>, found |-> FALSE, err |-> FALSE]
    ELSE IF /\ claims[name].t = "list"
            /\ \A i \in 1..Len(claims[name].v) : claims[name].v[i].t = "string"
    THEN [v |-> [i \in 1..Len(claims[name].v) |-> claims[name].v[i].v],
          found |-> TRUE, err |-> FALSE]
    ELSE [v |-> <<>>, found |-> FALSE, err |-> TRUE]

\* regexp.MatchString for the patterns of the model: a literal, searched
\* anywhere in s, or anchored at both ends (^lit$)
Contains(s, lit) ==
    \E i \in 0..(Len(s) - Len(lit)) : SubSeq(s, i + 1, i + Len(lit)) = lit

MatchString(match, s) == IF match.anchored THEN s = match.lit ELSE Contains(s, match.lit)

----------------------------------------------------------------------------
(* oauth.go                                                                *)

Nil == "nil"
ErrAccessTokenExpired == "ErrAccessTokenExpired"
ErrRefreshTokenExpired == "ErrRefreshTokenExpired"
ErrEncode == "ErrEncode"
ErrEncryption == "ErrEncryption"
ErrNoSessionFound == "ErrNoSessionFound"

\* client.VerifyJWT: the error text of the provider library for the token
VerifyJWT(token) ==
    CASE token.verify = "ok" -> Nil
      [] token.verify = "expired" -> "token is expired"
      [] OTHER -> "invalid signature"

\* the required scopes loop of verifyToken (lines 59-92)
requiredScopesSkipped(token) == Nil

requiredScopes(token) ==
    IF Len(config.RequiredScopes) > 0
    THEN IF "scope" \notin DOMAIN token.claims
         THEN "required scope claim absent from token"
         ELSE IF token.claims["scope"].t # "string"
         THEN "required scope claim is expected to be a string in token"
         ELSE LET availableScopes == Split(token.claims["scope"].v, " ") IN
              IF \E i \in 1..Len(config.RequiredScopes) :
                     config.RequiredScopes[i] \notin Range(availableScopes)
              THEN "required scope absent from provided scopes in token"
              ELSE Nil
    ELSE Nil

verifyToken(token) ==
    LET err == VerifyJWT(token) IN
    IF err # Nil
    THEN IF err = "token is expired" THEN ErrAccessTokenExpired ELSE err
    ELSE requiredScopes(token)

----------------------------------------------------------------------------
(* The identity of a request.                                              *)

NoIdentity == [isNil |-> TRUE]

\* the userContext built from a parsed token
extractIdentity(token, isBearer) ==
    [isNil |-> FALSE, token |-> token, bearerToken |-> isBearer,
     id |-> token.id, name |-> token.name, email |-> token.email,
     audiences |-> token.aud,
     roles |-> token.roles, groups |-> token.groups, claims |-> token.claims,
     expiresAt |-> token.exp]

\* jose.ParseJWT of a cookie value or bearer string: the value is one token
parses(value) == Len(value) = 1 /\ value[1].parses

\* getIdentity: the bearer token of the Authorization header, else the token
\* of the access envelope, else no session
getIdentity(r) ==
    IF r.Authorization.present
    THEN IF parses(<<r.Authorization.token>>)
         THEN [err |-> Nil, user |-> extractIdentity(r.Authorization.token, TRUE)]
         ELSE [err |-> "ErrParse", user |-> NoIdentity]
    ELSE LET env == readEnvelope(r.Cookies, config.CookieAccessName) IN
         IF ~env.found THEN [err |-> ErrNoSessionFound, user |-> NoIdentity]
         ELSE IF parses(env.value)
         THEN [err |-> Nil, user |-> extractIdentity(env.value[1], FALSE)]
         ELSE [err |-> "ErrParse", user |-> NoIdentity]

\* userContext.isExpired
isExpired(user) == user.expiresAt < now

isBearer(user) == user.bearerToken

----------------------------------------------------------------------------
(* The policy checks of admissionMiddleware (middleware.go).               *)

\* hasAccess(need, have, all, _): with all, every needed item is held;
\* without, one of them is; nothing needed is always granted
hasAccess(need, have, all, opt) ==
    IF Len(need) = 0 THEN TRUE
    ELSE IF all THEN \A i \in 1..Len(need) : need[i] \in Range(have)
    ELSE \E i \in 1..Len(need) : need[i] \in Range(have)

checkClaimAnyShape(user, claimName, match) ==
    claimName \in DOMAIN user.claims

checkClaim(user, claimName, match) ==
    IF claimName \notin DOMAIN user.claims THEN FALSE
    ELSE LET str == StringClaim(user.claims, claimName) IN
         IF str.found THEN MatchString(match, str.v)
         ELSE LET strs == StringsClaim(user.claims, claimName) IN
              IF strs.found
              THEN \E i \in 1..Len(strs.v) : MatchString(match, strs.v[i])
              ELSE FALSE

\* line 284
roleCheckAll(res, user) == hasAccess(res.Roles, user.roles, TRUE, FALSE)

roleCheckPermits(res, user) == TRUE

roleCheck(res, user) == hasAccess(res.Roles, user.roles, ~res.RequireAnyRole, FALSE)

\* line 296
groupCheck(res, user) == hasAccess(res.Groups, user.groups, FALSE, TRUE)

\* lines 308-313
claimsCheck(user) ==
    \A c \in DOMAIN config.MatchClaims : checkClaim(user, c, config.MatchClaims[c])

\* the checks admission evaluates, in order, up to the first that fails
admissionChecksAll(res, user) ==
    <<[check |-> "roles", ok |-> roleCheck(res, user)],
      [check |-> "groups", ok |-> groupCheck(res, user)],
      [check |-> "claims", ok |-> claimsCheck(user)]>>

admissionChecks(res, user) ==
    IF ~roleCheck(res, user)
    THEN <<[check |-> "roles", ok |-> FALSE]>>
    ELSE IF ~groupCheck(res, user)
    THEN <<[check |-> "roles", ok |-> TRUE], [check |-> "groups", ok |-> FALSE]>>
    ELSE <<[check |-> "roles", ok |-> TRUE], [check |-> "groups", ok |-> TRUE],
           [check |-> "claims", ok |-> claimsCheck(user)]>>

----------------------------------------------------------------------------
(* What a handler leaves behind: st = [scope, status, header, resp].       *)

\* http.ResponseWriter.WriteHeader: the first status written stands
WriteHeader(st, code) == IF st.status = 0 THEN [st EXCEPT !.status = code] ELSE st

\* revokeProxy: the scope of the returned context has AccessDenied set
revokeProxy(st) == [st EXCEPT !.scope.AccessDenied = TRUE]

\* accessForbidden: 403, and the request is denied
accessForbidden(st) == revokeProxy(WriteHeader(st, 403))

\* redirectToAuthorization with uuid the state uuid.NewV4() gave: the
\* request_uri and request_state cookies are written, the answer is a
\* redirect to the provider, and the request is denied
redirectToAuthorization(st, uuid) ==
    revokeProxy(
        WriteHeader([st EXCEPT !.header = @ \cup {"Location"},
                               !.resp = writeStateParameterCookie(@, req.Host, req.URL, uuid).w],
                    302))

\* errorResponse: the error status, and the request is denied
errorResponse(st, code) == revokeProxy(WriteHeader(st, code))

\* the text of an access token the provider issued, as it goes into the
\* cookie: the tokens of the model are told apart by their expiry and by the
\* number of their claims
encoded(tok) ==
    <<"j", "w", "t", ".">> \o Itoa(tok.exp) \o <<".">> \o Itoa(Cardinality(DOMAIN tok.claims))

\* the text of the refresh token the provider issued with an access token
rotated(tok) == <<"r", "t", ".">> \o Itoa(tok.exp)

\* r.refreshToken for the answer `outcome` of the provider and of the cookie
\* codec, and the access token newTok the provider issues.  Without a refresh
\* cookie no grant is sent.  grants counts the refresh_token grants sent.
refreshToken(st, user, outcome, newTok) ==
    IF ~readEnvelope(req.Cookies, config.CookieRefreshName).found
    THEN [st |-> st, err |-> "ErrNoRefreshToken", grants |-> 0]
    ELSE CASE outcome = "expired" ->
                [st |-> [st EXCEPT !.resp = clearAllCookies(@, req.Host, req.Cookies)],
                 err |-> ErrRefreshTokenExpired, grants |-> 1]
           [] outcome = "error" -> [st |-> st, err |-> "ErrProvider", grants |-> 1]
           [] outcome = "encode" -> [st |-> st, err |-> ErrEncode, grants |-> 1]
           [] outcome = "encryption" -> [st |-> st, err |-> ErrEncryption, grants |-> 1]
           [] OTHER ->
                LET w1 == dropAccessTokenCookie(st.resp, req.Host, encoded(newTok),
                                                newTok.exp - now).w
                    w2 == IF outcome = "rotated"
                          THEN dropRefreshTokenCookie(w1, req.Host, rotated(newTok),
                                                      newTok.exp - now).w
                          ELSE w1
                IN  [st |-> [st EXCEPT !.resp = w2,
                                       !.scope.Identity = extractIdentity(newTok, user.bearerToken)],
                     err |-> Nil, grants |-> 1]

\* the values uuid.NewV4().String() may give
UUIDs == { <<"u", "1">>, <<"u", "2">> }

RefreshOutcomes == {"ok", "rotated", "expired", "error", "encode", "encryption"}

----------------------------------------------------------------------------
(* authenticationMiddleware                                                *)

NoAuth ==
    [identityErr |-> Nil, verifyCalls |-> 0, verifyErr |-> Nil, refreshCalls |-> 0,
     refreshErr |-> Nil, grants |-> 0, decision |-> "none"]

\* lines 122-126: no identity, the request goes to authorization
noSessionPassed(st, uuid) == st

noSession(st, uuid) == redirectToAuthorization(st, uuid)

\* line 166: refresh tokens are switched off
refreshDisabledNever == FALSE

refreshDisabled == ~config.EnableRefreshTokens

\* lines 156-163: verification failed and the token is not merely expired
verifyFailedRedirects(st, uuid) == redirectToAuthorization(st, uuid)

verifyFailed(st, uuid) == accessForbidden(st)

\* line 181: the refresh returned an error
refreshFailedAlways(err) == TRUE

refreshFailed(err) == err # Nil

\* line 183: the errors answered with StatusInternalServerError
codecErrorNever(err) == FALSE

codecError(err) == err \in {ErrEncode, ErrEncryption}

\* lines 181-192: r.refreshToken has returned rf
afterRefresh(rf, a2, uuid) ==
    IF refreshFailed(rf.err) /\ codecError(rf.err)
    THEN [st |-> errorResponse(rf.st, 500), next |-> FALSE,
          auth |-> [a2 EXCEPT !.decision = "error"]]
    ELSE IF refreshFailed(rf.err)
    THEN [st |-> redirectToAuthorization(rf.st, uuid), next |-> TRUE,
          auth |-> [a2 EXCEPT !.decision = "redirect"]]
    ELSE [st |-> rf.st, next |-> TRUE, auth |-> [a2 EXCEPT !.decision = "continue"]]

\* line 181: the call of r.refreshToken, which returns rf
refreshed(rf, a1, uuid) ==
    afterRefresh(rf, [a1 EXCEPT !.refreshCalls = 1, !.refreshErr = rf.err,
                                !.grants = rf.grants], uuid)

\* lines 152-192: r.verifyToken has returned err
afterVerify(st1, user, a1, outcome, newTok, uuid) ==
    IF a1.verifyErr = Nil
    THEN [st |-> st1, next |-> TRUE, auth |-> [a1 EXCEPT !.decision = "continue"]]
    ELSE IF a1.verifyErr # ErrAccessTokenExpired
    THEN [st |-> verifyFailed(st1, uuid), next |-> TRUE,
          auth |-> [a1 EXCEPT !.decision = "forbidden"]]
    ELSE IF refreshDisabled
    THEN [st |-> redirectToAuthorization(st1, uuid), next |-> TRUE,
          auth |-> [a1 EXCEPT !.decision = "redirect"]]
    ELSE refreshed(refreshToken(st1, user, outcome, newTok), a1, uuid)

\* lines 128-192: the identity user is on the scope of st1
identified(st1, user, outcome, newTok, uuid) ==
    IF config.SkipTokenVerification
    THEN IF isExpired(user)
         THEN [st |-> redirectToAuthorization(st1, uuid), next |-> TRUE,
               auth |-> [NoAuth EXCEPT !.decision = "redirect"]]
         ELSE [st |-> st1, next |-> TRUE, auth |-> [NoAuth EXCEPT !.decision = "continue"]]
    ELSE afterVerify(st1, user,
                     [NoAuth EXCEPT !.verifyCalls = 1, !.verifyErr = verifyToken(user.token)],
                     outcome, newTok, uuid)

\* lines 116-192: r.getIdentity has returned id
withIdentity(st, id, outcome, newTok, uuid) ==
    IF id.err # Nil
    THEN [st |-> noSession(st, uuid), next |-> TRUE,
          auth |-> [NoAuth EXCEPT !.identityErr = id.err, !.decision = "redirect"]]
    ELSE identified([st EXCEPT !.scope.Identity = id.user], id.user, outcome, newTok, uuid)

\* the whole handler: the state it leaves, whether it calls next, and what it
\* did, when the provider answers a grant with outcome and newTok and a
\* redirect takes the state uuid
authenticationMiddleware(st, outcome, newTok, uuid) ==
    withIdentity(st, getIdentity(req), outcome, newTok, uuid)

----------------------------------------------------------------------------
(* removeCookiesFromRequest and the identity headers.                      *)

IsDigit(c) == c \in Range(Digits)

\* the number of digits s ends with
RECURSIVE TrailingDigits(_)
TrailingDigits(s) ==
    IF Len(s) > 0 /\ IsDigit(s[Len(s)]) THEN 1 + TrailingDigits(SubSeq(s, 1, Len(s) - 1)) ELSE 0

\* every final -<digits> cut off, not only the last one
RECURSIVE stripEveryChunk(_)
stripEveryChunk(name) ==
    LET k == TrailingDigits(name) IN
    IF k >= 1 /\ Len(name) > k /\ name[Len(name) - k] = "-"
    THEN stripEveryChunk(SubSeq(name, 1, Len(name) - k - 1)) ELSE name

\* rxStripChunk.ReplaceAllString(name, ""): (-\d+)$ matches at most once, at
\* the end of the name
stripChunk(name) ==
    LET k == TrailingDigits(name) IN
    IF k >= 1 /\ Len(name) > k /\ name[Len(name) - k] = "-"
    THEN SubSeq(name, 1, Len(name) - k - 1) ELSE name

RECURSIVE keptCookies(_, _)
keptCookies(cookies, removed) ==
    IF cookies = <<>> THEN <<>>
    ELSE (IF stripChunk(Head(cookies).Name) \in removed THEN <<>> ELSE <<Head(cookies)>>)
         \o keptCookies(Tail(cookies), removed)

\* The Cookie header of a request is a sequence of header lines, each line a
\* sequence of cookies.  req.Cookies() reads the cookies of every line, in
\* order.
RECURSIVE Cookies(_)
Cookies(lines) == IF lines = <<>> THEN <<>> ELSE Head(lines) \o Cookies(Tail(lines))

\* Header.Del("Cookie") and then req.AddCookie for each cookie kept: AddCookie
\* appends to the one Cookie line, so the header is one line, or absent
rebuildCookies(cookies) == IF cookies = <<>> THEN <<>> ELSE <<cookies>>

\* removeCookiesFromRequest: the Cookie header of the request afterwards; it
\* is rebuilt only when a cookie was removed
removeCookiesFromRequest(lines, removed) ==
    LET cookies == Cookies(lines)
        atLeastOnce == \E i \in 1..Len(cookies) : stripChunk(cookies[i].Name) \in removed
    IN  IF atLeastOnce THEN rebuildCookies(keptCookies(cookies, removed)) ELSE lines

\* strings.Join
RECURSIVE Join(_, _)
Join(list, sep) ==
    IF list = <<>> THEN <<>>
    ELSE IF Len(list) = 1 THEN <<list[1]>>
    ELSE <<list[1], sep>> \o Join(Tail(list), sep)

\* req.Header.Set
SetHeader(h, k, v) == [x \in DOMAIN h \cup {k} |-> IF x = k THEN v ELSE h[x]]

\* the setters of identityHeadersMiddleware, in the order they are appended
claimsHeaders(h, user) ==
    IF config.EnableClaimsHeaders
    THEN LET h1 == SetHeader(h, "X-Auth-Audience", Join(user.audiences, ","))
             h2 == SetHeader(h1, "X-Auth-Email", user.email)
             h3 == SetHeader(h2, "X-Auth-ExpiresIn", user.expiresAt)
             h4 == SetHeader(h3, "X-Auth-Groups", Join(user.groups, ","))
             h5 == SetHeader(h4, "X-Auth-Roles", Join(user.roles, ","))
             h6 == SetHeader(h5, "X-Auth-Subject", user.id)
             h7 == SetHeader(h6, "X-Auth-Userid", user.name)
         IN  SetHeader(h7, "X-Auth-Username", user.name)
    ELSE h

tokenHeader(h, user) ==
    IF config.EnableTokenHeader THEN SetHeader(h, "X-Auth-Token", user.token) ELSE h

authorizationHeader(h, user) ==
    IF config.EnableAuthorizationHeader
    THEN SetHeader(h, "Authorization", [scheme |-> "Bearer", token |-> user.token]) ELSE h

\* filterCookies: the cookies are "actually just redacted" (line 371).  The
\* Cookie header is emptied and every cookie of the request is added again,
\* in order: with the value censored when its name starts with a name of the
\* filter, as it is otherwise
filterCookies(cookies, filter) ==
    [k \in 1..Len(cookies) |->
        IF \E n \in filter : HasPrefix(cookies[k].Name, n)
        THEN [Name |-> cookies[k].Name, Value |-> <<"censored">>]
        ELSE cookies[k]]

\* the cookie filter setter, with the access and refresh cookie names
cookieFilter(h, user) ==
    IF ~config.EnableAuthorizationCookies
    THEN SetHeader(h, "Cookie",
                   filterCookies(h["Cookie"],
                                 {config.CookieAccessName, config.CookieRefreshName}))
    ELSE h

\* fmt.Sprintf("X-Auth-%s", toHeader(c)): the header name of a custom claim
toHeader(c) ==
    CASE c = "scope" -> "X-Auth-Scope"
      [] c \in {"item", "Item"} -> "X-Auth-Item"
      [] c = "groups" -> "X-Auth-Groups"
      [] c = "email" -> "X-Auth-Email"
      [] OTHER -> "X-Auth-Custom"

\* s without its final zeros
RECURSIVE TrimZeros(_)
TrimZeros(s) ==
    IF Len(s) > 0 /\ s[Len(s)] = "0" THEN TrimZeros(SubSeq(s, 1, Len(s) - 1)) ELSE s

\* %v of a float64 that holds the integer n >= 0 (a JSON number): the digits
\* below 10^6, from there on d.ddde+XX with the shortest mantissa
FormatFloat(n) ==
    LET d == Itoa(n)
        e == Len(d) - 1
        m == TrimZeros(d)
    IN  IF e < 6 THEN d
        ELSE <<m[1]>> \o (IF Len(m) > 1 THEN <<".">> \o SubSeq(m, 2, Len(m)) ELSE <<>>)
             \o <<"e", "+">> \o (IF e < 10 THEN <<"0">> ELSE <<>>) \o Itoa(e)

\* fmt.Sprintf("%v", claim): a string as it is, a number as %v prints a
\* float64, a list as [e1 e2 ...]
RECURSIVE SprintfV(_)
SprintfV(c) ==
    LET RECURSIVE elems(_)
        elems(l) == IF l = <<>> THEN <<>>
                    ELSE SprintfV(Head(l)) \o (IF Len(l) > 1 THEN <<" ">> ELSE <<>>)
                         \o elems(Tail(l))
    IN  CASE c.t = "string" -> c.v
          [] c.t = "number" -> FormatFloat(c.v)
          [] c.t = "bool" -> IF c.v THEN <<"t", "r", "u", "e">> ELSE <<"f", "a", "l", "s", "e">>
          [] c.t = "list" -> <<"[">> \o elems(c.v) \o <<"]">>
          [] OTHER -> <<"m", "a", "p", "[", "]">>

\* the orders in which a range over a map with the keys S may visit them
Orders(S) ==
    {o \in [1..Cardinality(S) -> S] : \A i, j \in 1..Cardinality(S) : o[i] = o[j] => i = j}

\* for claim, header := range customClaims, visiting the claims in order
RECURSIVE customClaimsLoop(_, _, _)
customClaimsLoop(h, user, order) ==
    IF Len(order) = 0 THEN h
    ELSE customClaimsLoop(IF Head(order) \in DOMAIN user.claims
                          THEN SetHeader(h, toHeader(Head(order)),
                                         SprintfV(user.claims[Head(order)]))
                          ELSE h,
                          user, Tail(order))

customClaimsHeaders(h, user, order) ==
    IF config.EnableClaimsHeaders THEN customClaimsLoop(h, user, order) ELSE h

setClaimsHeadersCustomFirst(h, user, order) ==
    cookieFilter(
        authorizationHeader(tokenHeader(claimsHeaders(customClaimsHeaders(h, user, order), user),
                                        user),
                            user),
        user)

setClaimsHeaders(h, user, order) ==
    customClaimsHeaders(
        cookieFilter(authorizationHeader(tokenHeader(claimsHeaders(h, user), user), user), user),
        user, order)

----------------------------------------------------------------------------
(* The requests, resources and configurations the chain is run on.         *)

AccessName == <<"a", "c", "c", "e", "s", "s">>
RefreshName == <<"r", "e", "f", "r", "e", "s", "h">>
OtherName == <<"l", "a", "n", "g">>

Hosts == { <<"a", ".", "i", "o">>, <<"a", "p", "p", ".", "i", "o", ":", "8", "0">> }

\* a token of the provider
Token(verify, exp, roles, groups, claims) ==
    [parses |-> TRUE, verify |-> verify, exp |-> exp, id |-> "sub-1", name |-> "jdoe",
     email |-> "jdoe@a.io", aud |-> <<"gatekeeper">>,
     roles |-> roles, groups |-> groups, claims |-> claims]

\* a value that is no JWT
BadToken == [parses |-> FALSE]

\* the claims of a token: an item claim and a scope claim, either may be absent
Absent == [t |-> "absent", v |-> <<>>]

TokenClaims(item, scopes) ==
    LET val(k) == IF k = "item" THEN item ELSE scopes IN
    [c \in {k \in {"item", "scope"} : val(k).t # "absent"} |-> val(c)]

NoClaims == TokenClaims(Absent, Absent)

ReadWrite == <<"r", " ", "w">>
WriteOnly == <<"w">>

ReadOnly == <<"r">>

ScopeClaims ==
    {NoClaims, TokenClaims(Absent, JString(ReadWrite)), TokenClaims(Absent, JString(ReadOnly))}

\* the expiry the provider's time check goes by
ExpOf(verify) == IF verify = "expired" THEN 0 - 60 ELSE 60

ChainTokens ==
    {Token(v, ExpOf(v), r, <<>>, c) :
        v \in {"ok", "expired", "invalid"}, r \in {<<"user">>, <<"admin">>}, c \in ScopeClaims}

\* the access tokens a refresh may return
RefreshedTokens ==
    {Token("ok", 60, <<"admin">>, <<>>, c) : c \in {NoClaims, TokenClaims(Absent, JString(WriteOnly))}}

Cookie(name, value) == [Name |-> name, Value |-> value]

\* the credentials of a request: none, a bearer token, a cookie session with
\* or without its refresh cookie, a cookie that is no token
ChainCredentials ==
    {[Authorization |-> [present |-> FALSE], Cookies |-> <<Cookie(OtherName, <<>>)>>]}
    \cup {[Authorization |-> [present |-> TRUE, token |-> t],
           Cookies |-> <<Cookie(OtherName, <<>>)>>] : t \in ChainTokens}
    \cup {[Authorization |-> [present |-> FALSE],
           Cookies |-> <<Cookie(AccessName, <<t>>), Cookie(RefreshName, <<"rt">>),
                         Cookie(OtherName, <<>>)>>] : t \in ChainTokens}
    \cup {[Authorization |-> [present |-> FALSE],
           Cookies |-> <<Cookie(AccessName, <<t>>)>>] :
              t \in {x \in ChainTokens : x.verify = "expired"}}
    \cup {[Authorization |-> [present |-> FALSE],
           Cookies |-> <<Cookie(AccessName, <<BadToken>>)>>]}

\* the method of a request and whether it carries the CSRF token
ChainMethods ==
    {[Method |-> "GET", CSRFToken |-> FALSE],
     [Method |-> "POST", CSRFToken |-> TRUE],
     [Method |-> "POST", CSRFToken |-> FALSE]}

\* the prefix the proxy's own endpoints are routed under, and the path of the
\* protected resource
OAuthURI == <<"/", "o", "a", "u", "t", "h">>

ResourceURL == <<"/", "a", "p", "i">>

Request(m, c) ==
    [Host |-> <<"a", ".", "i", "o">>,
     URL |-> [Path |-> ResourceURL, RawPath |-> <<>>, RawQuery |-> <<>>, ForceQuery |-> FALSE],
     RequestURI |-> ResourceURL, Method |-> m.Method,
     CSRFToken |-> m.CSRFToken, RequestID |-> <<>>, Authorization |-> c.Authorization,
     Cookies |-> c.Cookies]

\* the request r sent to the path p
SentTo(r, p) == [r EXCEPT !.URL.Path = p, !.RequestURI = p]

\* the request r, and the same request sent to an endpoint of the proxy
Routes(r) == {r, SentTo(r, OAuthURI \o <<"/", "t", "o", "k", "e", "n">>)}

\* paths with dot segments and duplicate slashes: /api/..//oauth/./token,
\* which names an endpoint of the proxy, and /../api/x/.., which names the
\* resource
DottedPaths ==
    {<<"/", "a", "p", "i", "/", ".", ".", "/", "/">> \o Tail(OAuthURI)
         \o <<"/", ".", "/", "t", "o", "k", "e", "n">>,
     <<"/", ".", ".">> \o ResourceURL \o <<"/", "x", "/", ".", ".">>}

\* the requests of Routes(r), and r sent to the paths that are not normal
RawRoutes(r) == Routes(r) \cup {SentTo(r, p) : p \in DottedPaths}

ChainRequests == {Request(m, c) : m \in ChainMethods, c \in ChainCredentials}

Resource(roles, any, groups, csrfOn) ==
    [Roles |-> roles, RequireAnyRole |-> any, Groups |-> groups, EnableCSRF |-> csrfOn]

ChainResources ==
    {Resource(r, FALSE, <<>>, c) : r \in {<<>>, <<"admin">>}, c \in BOOLEAN}

NoMatchClaims == [c \in {} |-> [lit |-> <<>>, anchored |-> FALSE]]

Config(skip, refresh, csrfOn, scopes, match) ==
    [CookieDomain |-> <<>>, HTTPOnlyCookie |-> TRUE, SecureCookie |-> FALSE,
     EnableSessionCookies |-> FALSE,
     CookieAccessName |-> AccessName, CookieRefreshName |-> RefreshName,
     SkipTokenVerification |-> skip, EnableRefreshTokens |-> refresh, EnableCSRF |-> csrfOn,
     RequiredScopes |-> scopes, MatchClaims |-> match,
     EnableClaimsHeaders |-> TRUE, EnableTokenHeader |-> TRUE,
     EnableAuthorizationHeader |-> TRUE, EnableAuthorizationCookies |-> FALSE,
     CustomClaims |-> {"scope"}, ResponseHeaders |-> {}]

ChainConfigs ==
    {Config(s, r, c, sc, NoMatchClaims) :
        s \in BOOLEAN, r \in BOOLEAN, c \in BOOLEAN, sc \in {<<>>, <<WriteOnly>>}}

----------------------------------------------------------------------------
(* The middleware chain of a protected resource.  One action per handler;  *)
(* a handler that calls next hands the request to the following stage.     *)

NoScope == [isNil |-> TRUE]

St == [scope |-> scope, status |-> status, header |-> header, resp |-> resp]

SafeMethods == {"GET", "HEAD", "OPTIONS", "TRACE"}

\* the request headers the chain may rewrite before the request is forwarded
RequestHeaders(r) ==
    IF r.Authorization.present
    THEN [x \in {"Cookie", "Authorization"} |->
             IF x = "Cookie" THEN r.Cookies
             ELSE [scheme |-> "Bearer", token |-> r.Authorization.token]]
    ELSE [x \in {"Cookie"} |-> r.Cookies]

CookiesIdle == phase = "idle" /\ call = [op |-> "none"] /\ panicked = FALSE

\* no task is running, nothing is allocated, the provider has redeemed no
\* refresh token and the store is empty
SharedIdle ==
    /\ tasks = <<>>
    /\ heap = <<>>
    /\ idp = [singleUse |-> FALSE, redeemed |-> {}]
    /\ store = <<>>

ChainStart ==
    /\ now = 0
    /\ CookiesIdle
    /\ resp = <<>>
    /\ pc = "entrypoint"
    /\ scope = NoScope
    /\ status = 0
    /\ header = {}
    /\ skipCheck = FALSE
    /\ csrf = "none"
    /\ fwd = RequestHeaders(req)
    /\ trace = <<>>
    /\ auth = NoAuth
    /\ adm = <<>>
    /\ upstream = 0
    /\ secure = "none"
    /\ keep = <<>>
    /\ SharedIdle

Step(from, to) == pc = from /\ pc' = to /\ trace' = Append(trace, from)

\* purell removeDotSegments, the loop over the sections from section i on:
\* ".." takes the last section kept away, "." is left out
RECURSIVE dotFreeFrom(_, _, _)
dotFreeFrom(sections, i, dotFree) ==
    IF i > Len(sections) THEN dotFree
    ELSE dotFreeFrom(sections, i + 1,
             IF sections[i] = <<".", ".">>
             THEN (IF Len(dotFree) > 0 THEN SubSeq(dotFree, 1, Len(dotFree) - 1) ELSE dotFree)
             ELSE IF sections[i] = <<".">> THEN dotFree
             ELSE Append(dotFree, sections[i]))

\* the path joined of the sections kept: it ends with a slash when the last
\* section of the path was a dot segment
dotFreePath(sections, path) ==
    IF sections[Len(sections)] \in {<<".">>, <<".", ".">>} /\ ~HasSuffix(path, <<"/">>)
    THEN path \o <<"/">> ELSE path

\* purell removeDotSegments, for the URL of a request to a server, which has
\* no host
removeDotSegmentsOf(sections) ==
    dotFreePath(sections, JoinStrings(dotFreeFrom(sections, 1, <<>>), <<"/">>))

removeDotSegments(path) ==
    IF Len(path) > 0 THEN removeDotSegmentsOf(Split(path, "/")) ELSE path

\* purell removeDuplicateSlashes: every run of slashes becomes one slash
RECURSIVE removeDuplicateSlashes(_)
removeDuplicateSlashes(path) ==
    IF Len(path) < 2 THEN path
    ELSE IF path[1] = "/" /\ path[2] = "/" THEN removeDuplicateSlashes(Tail(path))
    ELSE <<path[1]>> \o removeDuplicateSlashes(Tail(path))

\* purell.NormalizeURL(req.URL, normalizeFlags): the dot segments are removed
\* first and the duplicate slashes after them
NormalizeURL(path) == removeDuplicateSlashes(removeDotSegments(path))

\* lines 47-49: the path begins with a slash
rootedPath(path) == IF HasPrefix(path, <<"/">>) THEN path ELSE <<"/">> \o path

\* lines 44-51: the request the handlers below see, with the normal path p
entrypointRequest(r, p) ==
    [r EXCEPT !.URL.Path = p, !.RequestURI = r.URL.RawPath, !.URL.RawPath = p]

\* entrypointMiddleware up to its call of next: the path is normalised for
\* the handlers below and the request has a fresh RequestScope
Entrypoint ==
    /\ Step("entrypoint", "requestID")
    /\ keep' = req.URL.Path
    /\ req' = entrypointRequest(req, rootedPath(NormalizeURL(req.URL.Path)))
    /\ scope' = [Identity |-> NoIdentity, AccessDenied |-> FALSE]
    /\ UNCHANGED <<config, now, resp, cookieVars, sharedVars, secure, resource, status, header, skipCheck, csrf, fwd, auth, adm, upstream>>

\* requestIDMiddleware: a request id is generated when the request has none
RequestID ==
    /\ Step("requestID", "logging")
    /\ fwd' = IF req.RequestID = <<>> THEN SetHeader(fwd, "X-Request-ID", <<"uuid">>)
              ELSE SetHeader(fwd, "X-Request-ID", req.RequestID)
    /\ UNCHANGED <<config, now, keep, req, resp, cookieVars, sharedVars, secure, resource, scope, status, header, skipCheck, csrf, auth, adm, upstream>>

\* loggingMiddleware
Logging ==
    /\ Step("logging", "security")
    /\ UNCHANGED <<config, now, keep, req, resp, cookieVars, sharedVars, secure, resource, scope, status, header, skipCheck, csrf, fwd, auth, adm, upstream>>

\* the secure filter's answer stands and the request goes on as it came
securityFailedPassed(st) == WriteHeader(st, 500)

\* lines 446-450: the secure filter has answered (a bad host), and the request
\* goes on with the context accessForbidden returns
securityFailed(st) == accessForbidden(WriteHeader(st, 500))

\* securityMiddleware: the secure filter lets the request through or answers
\* it itself (a bad host) and the request is denied
Security ==
    /\ Step("security", "responseHeader")
    /\ \E ok \in BOOLEAN :
         LET st == IF ok THEN St ELSE securityFailed(St) IN
         /\ scope' = st.scope
         /\ status' = st.status
         /\ secure' = IF ok THEN "passed" ELSE "failed"
    /\ UNCHANGED <<config, now, keep, req, resp, cookieVars, sharedVars, resource, header, skipCheck, csrf, fwd, auth, adm, upstream>>

\* the route of a request: the endpoints of the proxy are mounted under
\* OAuthURI behind proxyDenyMiddleware, any other path is the resource's
isOAuthRoute(r) == HasPrefix(r.URL.Path, OAuthURI \o <<"/">>)

\* responseHeaderMiddleware: every configured header is set on the response,
\* then the router hands the request to the chain of its route
ResponseHeader ==
    /\ Step("responseHeader", IF isOAuthRoute(req) THEN "proxyDeny" ELSE "csrfSkip")
    /\ header' = header \cup config.ResponseHeaders
    /\ UNCHANGED <<config, now, keep, req, resp, cookieVars, sharedVars, secure, resource, scope, status, skipCheck, csrf, fwd, auth, adm, upstream>>

\* proxyDenyMiddleware: the scope of the request, or a new one when the
\* context holds none, with AccessDenied set
proxyDenyMiddleware(sc) ==
    IF sc = NoScope THEN [Identity |-> NoIdentity, AccessDenied |-> TRUE]
    ELSE [sc EXCEPT !.AccessDenied = TRUE]

\* proxyDenyMiddleware in front of the proxy's endpoints: nothing is written,
\* the request is handed on denied and is never forwarded upstream
ProxyDeny ==
    /\ Step("proxyDeny", "proxy")
    /\ scope' = proxyDenyMiddleware(scope)
    /\ UNCHANGED <<config, now, keep, req, resp, cookieVars, sharedVars, secure, resource, status, header, skipCheck, csrf, fwd, auth, adm, upstream>>

\* csrfSkipMiddleware: the skip mark of the request it hands on
csrfSkipMiddleware(marked, method) ==
    IF config.EnableCSRF
    THEN IF method \in SafeMethods THEN marked ELSE TRUE
    ELSE marked

CsrfSkip ==
    /\ Step("csrfSkip", "authentication")
    /\ skipCheck' = csrfSkipMiddleware(skipCheck, req.Method)
    /\ UNCHANGED <<config, now, keep, req, resp, cookieVars, sharedVars, secure, resource, scope, status, header, csrf, fwd, auth, adm, upstream>>

\* the refresh token of the request
RefreshCookie == readEnvelope(req.Cookies, config.CookieRefreshName)

\* the handler reaches line 181 and r.refreshToken sends a refresh_token
\* grant to the provider
sendsGrant(st) ==
    authenticationMiddleware(st, "ok", CHOOSE tok \in RefreshedTokens : TRUE,
                             CHOOSE uuid \in UUIDs : TRUE).auth.grants = 1

\* the handler has returned r: what it wrote, and the stage that runs next
AuthenticationReturns(r) ==
    /\ scope' = r.st.scope
    /\ status' = r.st.status
    /\ header' = r.st.header
    /\ resp' = r.st.resp
    /\ auth' = r.auth
    /\ pc' = IF r.next THEN "csrfSkipResource" ELSE "done"
    /\ trace' = Append(trace, "authentication")

\* the handler waits in r.refreshToken: the identity user is on the scope
\* (line 132) and its token has failed verification as expired
AuthenticationWaits(user) ==
    /\ scope' = [scope EXCEPT !.Identity = user]
    /\ auth' = [NoAuth EXCEPT !.verifyCalls = 1, !.verifyErr = verifyToken(user.token),
                              !.refreshCalls = 1, !.grants = 1]

\* authenticationMiddleware up to the call of the provider at line 181: the
\* identity is in the scope (line 132), the verification is done, nothing is
\* written and the handler waits for the provider's answer; a request that
\* needs no grant is handled to the end
Authentication ==
    /\ pc = "authentication"
    /\ IF sendsGrant(St)
       THEN /\ AuthenticationWaits(getIdentity(req).user)
            /\ pc' = "refreshing"
            /\ UNCHANGED <<status, header, resp, trace>>
       ELSE \E uuid \in UUIDs :
              AuthenticationReturns(
                  authenticationMiddleware(St, "ok", CHOOSE tok \in RefreshedTokens : TRUE, uuid))
    /\ UNCHANGED <<config, now, keep, req, cookieVars, sharedVars, secure, resource, skipCheck, csrf, fwd, adm, upstream>>

\* the provider answers the grant, it has redeemed the refresh token, and
\* the handler finishes: lines 181-192
AuthenticationRefreshed ==
    /\ pc = "refreshing"
    /\ \E outcome \in RefreshOutcomes, newTok \in RefreshedTokens, uuid \in UUIDs :
         AuthenticationReturns(authenticationMiddleware(St, outcome, newTok, uuid))
    /\ idp' = [idp EXCEPT !.redeemed = @ \cup {RefreshCookie.value}]
    /\ UNCHANGED <<config, now, keep, req, cookieVars, tasks, heap, store, secure, resource, skipCheck, csrf, fwd, adm, upstream>>

\* csrfSkipResourceMiddleware: the skip mark of the request it hands on
csrfSkipResourceMiddleware(marked, res, sc) ==
    IF ~config.EnableCSRF THEN marked
    ELSE IF ~res.EnableCSRF THEN TRUE
    ELSE IF sc.AccessDenied \/ sc.Identity.isNil THEN marked
    ELSE IF isBearer(sc.Identity) THEN TRUE
    ELSE marked

CsrfSkipResource ==
    /\ Step("csrfSkipResource", "admission")
    /\ skipCheck' = csrfSkipResourceMiddleware(skipCheck, resource, scope)
    /\ UNCHANGED <<config, now, keep, req, resp, cookieVars, sharedVars, secure, resource, scope, status, header, csrf, fwd, auth, adm, upstream>>

\* admissionMiddleware
Admission ==
    /\ Step("admission", "csrfProtect")
    /\ IF scope.AccessDenied
       THEN UNCHANGED <<scope, status, adm>>
       ELSE LET checks == admissionChecks(resource, scope.Identity)
                st == IF checks[Len(checks)].ok THEN St ELSE accessForbidden(St)
            IN  /\ adm' = checks
                /\ scope' = st.scope
                /\ status' = st.status
    /\ UNCHANGED <<config, now, keep, req, resp, cookieVars, sharedVars, secure, resource, header, skipCheck, csrf, fwd, auth, upstream>>

\* csrfProtectMiddleware: gorilla/csrf passes a request marked skip, issues
\* its token otherwise, and checks the token of a request with an unsafe method
protectChecksAll(marked, method, token) ==
    IF marked THEN "skipped"
    ELSE IF token THEN "passed" ELSE "rejected"

protect(marked, method, token) ==
    IF marked THEN "skipped"
    ELSE IF method \in SafeMethods THEN "safe"
    ELSE IF token THEN "passed" ELSE "rejected"

\* the name and the lifetime of the cookie gorilla/csrf keeps its token in
CSRFCookieName == <<"k", "c", "-", "c", "s", "r", "f">>
CSRFMaxAge == 12 * 3600

\* the request brings a valid CSRF cookie: the requests of the model bring
\* the cookie together with the token it holds, or neither
hasCSRFCookie(r) == r.CSRFToken

\* the cookie gorilla/csrf saves a new token in, as configured at lines 473-481
csrfCookie ==
    [Name |-> CSRFCookieName, Value |-> <<"c", "s", "r", "f">>, Domain |-> config.CookieDomain,
     Path |-> <<"/">>, HttpOnly |-> config.HTTPOnlyCookie, Secure |-> config.SecureCookie,
     Expires |-> TimeAt(now + CSRFMaxAge)]

\* csrfProtectMiddleware: r.csrf when CSRF is enabled.  A request marked skip
\* goes on untouched.  For any other request a token is issued in a new cookie
\* unless the request brought one; a request with an unsafe method is then
\* checked and, failing, answered by the error handler; a request that goes
\* on has Vary: Cookie added to the response.
CsrfProtect ==
    /\ pc = "csrfProtect"
    /\ trace' = Append(trace, "csrfProtect")
    /\ csrf' = IF ~config.EnableCSRF THEN "off"
               ELSE protect(skipCheck, req.Method, req.CSRFToken)
    /\ resp' = IF csrf' \in {"safe", "passed", "rejected"} /\ ~hasCSRFCookie(req)
               THEN SetCookie(resp, csrfCookie) ELSE resp
    /\ header' = IF csrf' \in {"safe", "passed"} THEN header \cup {"Vary"} ELSE header
    /\ status' = IF csrf' = "rejected" THEN WriteHeader(St, 403).status ELSE status
    /\ pc' = IF csrf' = "rejected" THEN "done" ELSE "csrfHeader"
    /\ UNCHANGED <<config, now, keep, req, cookieVars, sharedVars, secure, resource, scope, skipCheck, fwd, auth, adm, upstream>>

\* csrfHeaderMiddleware
CsrfHeader ==
    /\ Step("csrfHeader", "identityHeaders")
    /\ header' =
         IF ~config.EnableCSRF THEN header
         ELSE IF scope.AccessDenied \/ scope.Identity.isNil THEN header
         ELSE IF isBearer(scope.Identity) THEN header
         ELSE IF "Location" \in header THEN header
         ELSE IF csrf \notin {"safe", "passed"} THEN header
         ELSE header \cup {"X-CSRF-Token"}
    /\ UNCHANGED <<config, now, keep, req, resp, cookieVars, sharedVars, secure, resource, scope, status, skipCheck, csrf, fwd, auth, adm, upstream>>

\* identityHeadersMiddleware
IdentityHeaders ==
    /\ Step("identityHeaders", "proxy")
    /\ \E order \in Orders(config.CustomClaims) :
          fwd' = IF ~scope.Identity.isNil
                 THEN setClaimsHeaders(fwd, scope.Identity, order)
                 ELSE fwd
    /\ UNCHANGED <<config, now, keep, req, resp, cookieVars, sharedVars, secure, resource, scope, status, header, skipCheck, csrf, auth, adm, upstream>>

\* the upstream forward: a request that was denied is not sent upstream
Proxy ==
    /\ Step("proxy", "done")
    /\ IF scope.AccessDenied
       THEN UNCHANGED <<status, upstream>>
       ELSE upstream' = upstream + 1 /\ status' = WriteHeader(St, 200).status
    /\ UNCHANGED <<config, now, keep, req, resp, cookieVars, sharedVars, secure, resource, scope, header, skipCheck, csrf, fwd, auth, adm>>

\* entrypointMiddleware after next has returned (lines 64-66): the path the
\* request came with is placed back
EntrypointReturns ==
    /\ pc = "done"
    /\ pc' = "returned"
    /\ req' = [req EXCEPT !.URL.Path = keep, !.URL.RawPath = keep, !.RequestURI = keep]
    /\ UNCHANGED <<config, now, keep, resp, cookieVars, sharedVars, secure, resource, scope, status, header, skipCheck, csrf, fwd, trace, auth, adm, upstream>>

ChainInit ==
    /\ config \in ChainConfigs
    /\ resource \in ChainResources
    /\ \E r \in ChainRequests : req \in Routes(r)
    /\ ChainStart

ChainNext ==
    \/ Entrypoint
    \/ RequestID
    \/ Logging
    \/ Security
    \/ ResponseHeader
    \/ ProxyDeny
    \/ CsrfSkip
    \/ Authentication
    \/ AuthenticationRefreshed
    \/ CsrfSkipResource
    \/ Admission
    \/ CsrfProtect
    \/ CsrfHeader
    \/ IdentityHeaders
    \/ Proxy
    \/ EntrypointReturns

Spec == ChainInit /\ [][ChainNext]_vars

----------------------------------------------------------------------------
(* The chain on the inputs of the policy checks: a verified cookie session *)
(* whose roles, groups and claims vary against the resource and the        *)
(* configured claim patterns.                                              *)

RolePool == <<"admin", "user", "ops", "dev">>
GroupPool == <<"g1", "g2", "g3", "g4">>

\* the names of pool at the indexes of S, in order
RECURSIVE PickNames(_, _, _)
PickNames(pool, S, k) ==
    IF k > MaxNames THEN <<>>
    ELSE (IF k \in S THEN <<pool[k]>> ELSE <<>>) \o PickNames(pool, S, k + 1)

NameLists(pool) == {PickNames(pool, S, 1) : S \in SUBSET (1..MaxNames)}

Lit == <<"a", "b">>

ItemValues ==
    {Absent, JString(Lit), JString(<<"x", "a", "b", "x">>), JString(<<"x">>),
     JList(<<JString(<<"x">>), JString(Lit)>>), JList(<<JString(<<"x">>)>>), JList(<<>>),
     JList(<<JString(Lit), JNumber(1)>>), JNumber(1), JBool(TRUE), JObject}

ItemMatches(m) == [c \in {"item"} |-> m]

BothMatch ==
    [c \in {"item", "scope"} |->
        IF c = "item" THEN [lit |-> Lit, anchored |-> FALSE]
        ELSE [lit |-> WriteOnly, anchored |-> TRUE]]

PolicyMatches ==
    {NoMatchClaims, ItemMatches([lit |-> Lit, anchored |-> FALSE]),
     ItemMatches([lit |-> Lit, anchored |-> TRUE]), BothMatch}

\* a request of a session with the token t
SessionRequest(t) ==
    Request([Method |-> "GET", CSRFToken |-> FALSE],
            [Authorization |-> [present |-> FALSE],
             Cookies |-> <<Cookie(AccessName, <<t>>), Cookie(OtherName, <<>>)>>])

PolicyCase(roles, any, have, groups, haveGroups, match, claims) ==
    /\ config = Config(FALSE, FALSE, FALSE, <<>>, match)
    /\ resource = Resource(roles, any, groups, FALSE)
    /\ req \in RawRoutes(SessionRequest(Token("ok", 60, have, haveGroups, claims)))

\* a request of a session whose access token t has expired and which brings
\* its refresh token: the checks then run on the identity of the new token
ExpiredSessionRequest(t) ==
    Request([Method |-> "GET", CSRFToken |-> FALSE],
            [Authorization |-> [present |-> FALSE],
             Cookies |-> <<Cookie(AccessName, <<t>>), Cookie(RefreshName, <<"rt">>)>>])

FewRoles == {<<<<"admin">>, <<"admin">>>>, <<<<"admin">>, <<"user">>>>}
FewGroups == {<<<<>>, <<>>>>, <<<<"g1">>, <<>>>>}
FewClaims ==
    {<<NoMatchClaims, NoClaims>>,
     <<ItemMatches([lit |-> Lit, anchored |-> FALSE]), TokenClaims(JString(<<"x">>), Absent)>>}

PolicyInit ==
    /\ \/ \E r \in NameLists(RolePool), any \in BOOLEAN, u \in NameLists(RolePool),
             g \in FewGroups, c \in FewClaims :
             PolicyCase(r, any, u, g[1], g[2], c[1], c[2])
       \/ \E g \in NameLists(GroupPool), ug \in NameLists(GroupPool),
             r \in FewRoles, c \in FewClaims :
             PolicyCase(r[1], FALSE, r[2], g, ug, c[1], c[2])
       \/ \E m \in PolicyMatches, item \in ItemValues,
             sc \in {Absent, JString(WriteOnly), JString(ReadWrite)},
             r \in FewRoles, g \in FewGroups :
             PolicyCase(r[1], FALSE, r[2], g[1], g[2], m, TokenClaims(item, sc))
       \/ \E r \in FewRoles, any \in BOOLEAN :
             /\ config = Config(FALSE, TRUE, FALSE, <<>>, NoMatchClaims)
             /\ resource = Resource(r[1], any, <<>>, FALSE)
             /\ req \in Routes(ExpiredSessionRequest(
                                  Token("expired", 0 - 60, r[2], <<>>, NoClaims)))
    /\ ChainStart

PolicySpec == PolicyInit /\ [][ChainNext]_vars

----------------------------------------------------------------------------
(* The chain on the inputs of the CSRF stages: every method, with and      *)
(* without the CSRF token, under every kind of credential.                 *)

Methods == {"GET", "HEAD", "OPTIONS", "TRACE", "POST", "DELETE"}

CsrfTokens ==
    {Token(v, ExpOf(v), <<"user">>, <<>>, NoClaims) : v \in {"ok", "expired", "invalid"}}

CsrfCredentials ==
    {[Authorization |-> [present |-> FALSE], Cookies |-> <<Cookie(OtherName, <<>>)>>]}
    \cup {[Authorization |-> [present |-> TRUE, token |-> t], Cookies |-> <<>>] :
              t \in CsrfTokens \cup {BadToken}}
    \cup {[Authorization |-> [present |-> FALSE],
           Cookies |-> <<Cookie(AccessName, <<t>>), Cookie(RefreshName, <<"rt">>)>>] :
              t \in CsrfTokens \cup {BadToken}}

CsrfInit ==
    /\ \E r \in BOOLEAN, c \in BOOLEAN :
          config = Config(FALSE, r, c, <<>>, NoMatchClaims)
    /\ \E roles \in {<<>>, <<"admin">>}, c \in BOOLEAN :
          resource = Resource(roles, FALSE, <<>>, c)
    /\ \E m \in Methods, t \in BOOLEAN, c \in CsrfCredentials :
          req \in Routes(Request([Method |-> m, CSRFToken |-> t], c))
    /\ ChainStart

CsrfSpec == CsrfInit /\ [][ChainNext]_vars

----------------------------------------------------------------------------
(* The chain on the inputs of the identity headers: every setting of the   *)
(* header switches and of the custom claims, sessions whose cookies        *)
(* include chunks, and tokens with and without the custom claims.          *)

WithClaim(claims, k, v) == [c \in DOMAIN claims \cup {k} |-> IF c = k THEN v ELSE claims[c]]

GroupsClaim == JList(<<JString(<<"g1">>), JString(<<"g2">>)>>)

HeaderClaims ==
    {NoClaims,
     WithClaim(TokenClaims(JString(Lit), Absent), "groups", GroupsClaim),
     WithClaim(TokenClaims(JNumber(12), Absent), "groups", GroupsClaim),
     WithClaim(TokenClaims(JString(Lit), Absent), "Item", JNumber(12)),
     TokenClaims(JNumber(1200000), Absent)}

HeaderTokens ==
    {Token("ok", 60, <<"admin", "user">>, <<"g1", "g2">>, c) : c \in HeaderClaims}
    \cup {Token("expired", 0 - 60, <<"user">>, <<>>, NoClaims)}

\* the cookies of a session with the token t, around cookies of the application
SessionCookies(t) ==
    <<Cookie(OtherName, <<>>), Cookie(AccessName, <<t>>),
      Cookie(AccessName \o <<"-", "1">>, <<>>), Cookie(AccessName \o <<"-", "x">>, <<>>),
      Cookie(RefreshName, <<"rt">>), Cookie(RefreshName \o <<"-", "1", "2">>, <<>>),
      Cookie(OtherName \o <<"-", "1">>, <<>>)>>

HeaderCredentials ==
    {[Authorization |-> [present |-> FALSE], Cookies |-> <<Cookie(OtherName, <<>>)>>]}
    \cup {[Authorization |-> [present |-> TRUE, token |-> t],
           Cookies |-> <<Cookie(OtherName, <<>>)>>] : t \in HeaderTokens}
    \cup {[Authorization |-> [present |-> FALSE], Cookies |-> SessionCookies(t)] :
              t \in HeaderTokens}

HeaderConfigs ==
    {[Config(FALSE, r, FALSE, <<>>, NoMatchClaims) EXCEPT
         !.EnableClaimsHeaders = a, !.EnableTokenHeader = b,
         !.EnableAuthorizationHeader = c, !.EnableAuthorizationCookies = d,
         !.CustomClaims = cc, !.ResponseHeaders = rh] :
        r \in BOOLEAN, a \in BOOLEAN, b \in BOOLEAN, c \in BOOLEAN, d \in BOOLEAN,
        cc \in {{}, {"groups"}, {"groups", "item"}, {"item", "Item"}}, rh \in {{}, {"X-Served-By"}}}

HeaderInit ==
    /\ config \in HeaderConfigs
    /\ resource = Resource(<<>>, FALSE, <<>>, FALSE)
    /\ \E c \in HeaderCredentials :
          req \in Routes(Request([Method |-> "GET", CSRFToken |-> FALSE], c))
    /\ ChainStart

HeaderSpec == HeaderInit /\ [][ChainNext]_vars

----------------------------------------------------------------------------
(* The inputs of the cookie handlers.                                      *)

\* a configured cookie name that is no valid cookie name: it holds a space
BadName == <<"k", "c", " ", "s">>

\* every setting of the cookie options, and one configuration whose refresh
\* cookie has the name BadName
CookieConfigs ==
    [CookieDomain : { <<>>, <<"x", ".", "o", "r", "g">> },
     HTTPOnlyCookie : BOOLEAN, SecureCookie : BOOLEAN, EnableSessionCookies : BOOLEAN,
     CookieAccessName : {AccessName}, CookieRefreshName : {RefreshName}]
    \cup {[CookieDomain |-> <<>>, HTTPOnlyCookie |-> TRUE, SecureCookie |-> FALSE,
            EnableSessionCookies |-> FALSE,
            CookieAccessName |-> AccessName, CookieRefreshName |-> BadName]}

\* the lengths dropped for a budget of max: empty, short, and around every
\* multiple of the budget up to MaxChunks cookies
ValueLens(max) ==
    {0, 1} \cup {k * max + d : k \in 1..(MaxChunks - 1), d \in {-1, 0, 1}}
           \cup {MaxChunks * max}

\* the values dropped for a budget of max: encoded text of the lengths of
\* ValueLens, and two values of two slices whose first byte is one a cookie
\* value does not carry as it is, a semicolon and a space
DropValues(max) ==
    {Bytes(n) : n \in ValueLens(max)}
        \cup {[Bytes(max + 1) EXCEPT ![1] = c] : c \in {";", " "}}

DropDurations == {0, 30 * 60}

\* the names a request may carry: both envelopes with their chunks, and a
\* cookie of the application
RequestNames ==
    <<AccessName>> \o [i \in 1..MaxReqChunk |-> AccessName \o <<"-">> \o Itoa(i)]
    \o <<RefreshName>> \o [i \in 1..MaxReqChunk |-> RefreshName \o <<"-">> \o Itoa(i)]
    \o <<OtherName>>

\* the cookies of RequestNames picked by the index set S, in order
RECURSIVE PickCookies(_, _)
PickCookies(S, k) ==
    IF k > Len(RequestNames) THEN <<>>
    ELSE (IF k \in S THEN <<[Name |-> RequestNames[k], Value |-> <<k>>]>> ELSE <<>>)
         \o PickCookies(S, k + 1)

RequestCookies == {PickCookies(S, 1) : S \in SUBSET (1..Len(RequestNames))}

\* the request targets a redirect to authorization is issued for
RequestTargets ==
    { <<"/">>, <<"/", "a", "p", "i">>, <<"/", "a", "p", "i", "/", "x">>,
      <<"/", "/", "a", "p", "i">>, <<"/", "a", "p", "i", "?", "x", "=", "1">>,
      <<"/", "?", "a", "=", "1">>, <<"/", "a", "p", "i", "?">>,
      <<"/", "a", "p", "i", "?", "?">> }

NoCall == [op |-> "none"]

----------------------------------------------------------------------------
(* The cookie handlers: each action serves one request with one operation  *)
(* of cookies.go on an empty response.                                     *)

\* no request is in the chain
ChainOff ==
    /\ pc = "off"
    /\ resource = Resource(<<>>, FALSE, <<>>, FALSE)
    /\ scope = NoScope
    /\ status = 0
    /\ header = {}
    /\ skipCheck = FALSE
    /\ csrf = "none"
    /\ fwd = <<>>
    /\ trace = <<>>
    /\ auth = NoAuth
    /\ adm = <<>>
    /\ upstream = 0
    /\ secure = "none"
    /\ keep = <<>>
    /\ SharedIdle

CookieInit ==
    /\ config \in CookieConfigs
    /\ now = 0
    /\ phase = "idle"
    /\ req = [Host |-> <<>>, Cookies |-> <<>>]
    /\ call = NoCall
    /\ resp = <<>>
    /\ panicked = FALSE
    /\ ChainOff

DropAccessToken ==
    /\ phase = "idle"
    /\ \E host \in Hosts, duration \in DropDurations :
         \E value \in DropValues(getMaxCookieChunkLength(host, config.CookieAccessName)) :
            LET r == dropAccessTokenCookie(<<>>, host, value, duration) IN
            /\ req' = [Host |-> host, Cookies |-> <<>>]
            /\ call' = [op |-> "drop", name |-> config.CookieAccessName,
                        value |-> value, duration |-> duration]
            /\ resp' = r.w
            /\ panicked' = r.panic
    /\ phase' = "handled"
    /\ UNCHANGED <<config, now, chainVars, sharedVars>>

DropRefreshToken ==
    /\ phase = "idle"
    /\ \E host \in Hosts, duration \in DropDurations :
         \E value \in DropValues(getMaxCookieChunkLength(host, config.CookieRefreshName)) :
            LET r == dropRefreshTokenCookie(<<>>, host, value, duration) IN
            /\ req' = [Host |-> host, Cookies |-> <<>>]
            /\ call' = [op |-> "drop", name |-> config.CookieRefreshName,
                        value |-> value, duration |-> duration]
            /\ resp' = r.w
            /\ panicked' = r.panic
    /\ phase' = "handled"
    /\ UNCHANGED <<config, now, chainVars, sharedVars>>

ClearAccessToken ==
    /\ phase = "idle"
    /\ \E host \in Hosts, cookies \in RequestCookies :
            /\ req' = [Host |-> host, Cookies |-> cookies]
            /\ call' = [op |-> "clearAccess"]
            /\ resp' = clearAccessTokenCookie(<<>>, host, cookies)
    /\ phase' = "handled"
    /\ UNCHANGED <<config, now, panicked, chainVars, sharedVars>>

ClearRefreshToken ==
    /\ phase = "idle"
    /\ \E host \in Hosts, cookies \in RequestCookies :
            /\ req' = [Host |-> host, Cookies |-> cookies]
            /\ call' = [op |-> "clearRefresh"]
            /\ resp' = clearRefreshTokenCookie(<<>>, host, cookies)
    /\ phase' = "handled"
    /\ UNCHANGED <<config, now, panicked, chainVars, sharedVars>>

ClearAll ==
    /\ phase = "idle"
    /\ \E host \in Hosts, cookies \in RequestCookies :
            /\ req' = [Host |-> host, Cookies |-> cookies]
            /\ call' = [op |-> "clearAll"]
            /\ resp' = clearAllCookies(<<>>, host, cookies)
    /\ phase' = "handled"
    /\ UNCHANGED <<config, now, panicked, chainVars, sharedVars>>

WriteStateParameter ==
    /\ phase = "idle"
    /\ \E host \in Hosts, target \in RequestTargets, uuid \in UUIDs :
            LET r == writeStateParameterCookie(<<>>, host, ParseRequestURI(target), uuid) IN
            /\ req' = [Host |-> host, Cookies |-> <<>>, URL |-> ParseRequestURI(target)]
            /\ call' = [op |-> "state", target |-> target, state |-> r.state]
            /\ resp' = r.w
    /\ phase' = "handled"
    /\ UNCHANGED <<config, now, panicked, chainVars, sharedVars>>

\* the request is over; the next one arrives at the same time or later
NextRequest ==
    /\ phase = "handled"
    /\ phase' = "idle"
    /\ \E d \in 0..1 : now + d <= MaxTicks /\ now' = now + d
    /\ req' = [Host |-> <<>>, Cookies |-> <<>>]
    /\ call' = NoCall
    /\ resp' = <<>>
    /\ panicked' = FALSE
    /\ UNCHANGED <<config, chainVars, sharedVars>>

CookieNext ==
    \/ DropAccessToken
    \/ DropRefreshToken
    \/ ClearAccessToken
    \/ ClearRefreshToken
    \/ ClearAll
    \/ WriteStateParameter
    \/ NextRequest

CookieSpec == CookieInit /\ [][CookieNext]_vars

----------------------------------------------------------------------------
(* Claims about the cookie envelope.                                       *)

CeilDiv(a, b) == (a + b - 1) \div b

Dropped == phase = "handled" /\ call.op = "drop" /\ ~panicked

Budget == getMaxCookieChunkLength(req.Host, call.name)

\* the name of the call is a valid cookie name, and its value holds only
\* bytes a cookie value carries unquoted
NameValid == isCookieNameValid(call.name)

ValueCarried == \A i \in 1..Len(call.value) : call.value[i] \in ValueBytes \ {" ", ","}

\* C1 as stated: for every name and every value, the cookies
\* dropCookieWithChunks emits, read back in the order N, N-1, N-2, ..., give
\* exactly V, and there are ceil(|V|/B) of them (one when |V| <= B).
C1_RoundTrip ==
    Dropped =>
        /\ readEnvelope(resp, call.name) = [found |-> TRUE, value |-> call.value]
        /\ Len(resp) = IF Len(call.value) <= Budget THEN 1
                       ELSE CeilDiv(Len(call.value), Budget)

\* C1, amended: for a valid cookie name there are ceil(|V|/B) cookies (one
\* when |V| <= B), and they give exactly V when V holds only bytes a cookie
\* value carries unquoted; for a name that is no valid cookie name no cookie
\* is emitted.
C1_RoundTripOfCarried ==
    Dropped =>
        /\ NameValid =>
              Len(resp) = IF Len(call.value) <= Budget THEN 1
                          ELSE CeilDiv(Len(call.value), Budget)
        /\ (NameValid /\ ValueCarried) =>
              readEnvelope(resp, call.name) = [found |-> TRUE, value |-> call.value]
        /\ ~NameValid => resp = <<>>

C1_Witness ==
    /\ Dropped
    /\ NameValid
    /\ ValueCarried
    /\ Len(call.value) > 2 * Budget
    /\ Len(call.value) % Budget # 0
    /\ Len(resp) = 3

\* C2 as stated: for a value longer than the budget the first slice goes
\* under the unsuffixed name and the i-th following one under name-i, i = 1,
\* 2, ..., k without gap or repeat; every slice but the last is exactly budget
\* long and the last is between 1 and budget long.
C2_ChunkNaming ==
    (Dropped /\ Len(call.value) > Budget) =>
        /\ Len(resp) >= 2
        /\ resp[1].Name = call.name
        /\ \A i \in 2..Len(resp) : resp[i].Name = call.name \o <<"-">> \o Itoa(i - 1)
        /\ \A i \in 1..(Len(resp) - 1) : Len(resp[i].Value) = Budget
        /\ Len(resp[Len(resp)].Value) \in 1..Budget

\* C2, amended: for a valid cookie name and a value longer than the budget
\* the first slice goes under the unsuffixed name and the i-th following one
\* under name-i, i = 1, 2, ..., k without gap or repeat; when the value holds
\* only bytes a cookie value carries unquoted, every slice but the last is
\* exactly budget long and the last is between 1 and budget long.
C2_ChunkNamingOfValid ==
    (Dropped /\ Len(call.value) > Budget /\ NameValid) =>
        /\ Len(resp) >= 2
        /\ resp[1].Name = call.name
        /\ \A i \in 2..Len(resp) : resp[i].Name = call.name \o <<"-">> \o Itoa(i - 1)
        /\ ValueCarried =>
              /\ \A i \in 1..(Len(resp) - 1) : Len(resp[i].Value) = Budget
              /\ Len(resp[Len(resp)].Value) \in 1..Budget

C2_Witness ==
    /\ Dropped
    /\ NameValid
    /\ ValueCarried
    /\ Len(call.value) = 2 * Budget + 1
    /\ Len(resp) = 3
    /\ resp[3].Name = call.name \o <<"-", "2">>

IsChunkOf(n, name) ==
    \E i \in 1..MaxReqChunk : n = name \o <<"-">> \o Itoa(i)

Cleared(n) ==
    \E k \in 1..Len(resp) : resp[k].Name = n /\ resp[k].Value = <<>>

\* C3: after clearAllCookies every chunk cookie name-i (i >= 1) of the access
\* or of the refresh envelope that the request carries has a clearing cookie
\* in the response, whatever set of cookies the request carries.
C3_ClearingComplete ==
    (phase = "handled" /\ call.op = "clearAll") =>
        \A k \in 1..Len(req.Cookies) :
            (\/ IsChunkOf(req.Cookies[k].Name, config.CookieAccessName)
             \/ IsChunkOf(req.Cookies[k].Name, config.CookieRefreshName))
            => Cleared(req.Cookies[k].Name)

IsClear == phase = "handled" /\ call.op \in {"clearAccess", "clearRefresh", "clearAll"}

\* C4: every cookie a clear operation emits has an empty value and an expiry
\* 10 hours before now, under every setting of the cookie options.
C4_ClearExpiresInPast ==
    IsClear =>
        \A k \in 1..Len(resp) :
            /\ resp[k].Value = <<>>
            /\ resp[k].Expires = TimeAt(now + ClearDuration)

----------------------------------------------------------------------------
(* Claims about the policy checks of the admission stage.                  *)

Shares(need, have) == Range(need) \cap Range(have) # {}

Within(need, have) == Range(need) \subseteq Range(have)

\* admission evaluated its checks for the identity of the scope
Admitted == adm # <<>>

\* C5: with require_any_role the role check permits iff the required roles
\* and the identity's roles share an element or no role is required; without
\* it the role check permits iff every required role is among the identity's.
C5_RoleCheck ==
    Admitted =>
        adm[1].ok = IF resource.RequireAnyRole
                    THEN resource.Roles = <<>> \/ Shares(resource.Roles, scope.Identity.roles)
                    ELSE Within(resource.Roles, scope.Identity.roles)

C5_Witness ==
    /\ Admitted
    /\ resource.RequireAnyRole
    /\ Len(resource.Roles) = 2
    /\ Len(scope.Identity.roles) = 1
    /\ adm[1].ok
    /\ upstream = 1

\* C6: the group check permits iff every group the resource requires is among
\* the identity's groups (or none is required); some of several is denied.
C6_GroupCheck ==
    Len(adm) >= 2 =>
        adm[2].ok = Within(resource.Groups, scope.Identity.groups)

\* a (claim, pattern) pair is satisfied: the claim is there and is a matched
\* string or a list of strings one of which is matched
Satisfied(claims, c, m) ==
    /\ c \in DOMAIN claims
    /\ \/ claims[c].t = "string" /\ MatchString(m, claims[c].v)
       \/ /\ claims[c].t = "list"
          /\ \A i \in 1..Len(claims[c].v) : claims[c].v[i].t = "string"
          /\ \E i \in 1..Len(claims[c].v) : MatchString(m, claims[c].v[i].v)

AllSatisfied ==
    \A c \in DOMAIN config.MatchClaims :
        Satisfied(scope.Identity.claims, c, config.MatchClaims[c])

\* C7: the claim check permits iff every configured (claim, pattern) pair is
\* satisfied, and the request goes upstream only if they all are; an absent
\* claim, an empty list and a number, bool or object deny.
C7_ClaimCheck ==
    /\ Len(adm) = 3 => adm[3].ok = AllSatisfied
    /\ (Admitted /\ upstream > 0) => AllSatisfied

C7_Witness ==
    /\ Len(adm) = 3
    /\ adm[3].ok
    /\ DOMAIN config.MatchClaims = {"item", "scope"}
    /\ scope.Identity.claims["item"].t = "list"
    /\ upstream = 1

----------------------------------------------------------------------------
(* Claims about the chain.                                                 *)

Ran(stage) == stage \in Range(trace)

RoleLacking ==
    IF resource.RequireAnyRole
    THEN resource.Roles # <<>> /\ ~Shares(resource.Roles, scope.Identity.roles)
    ELSE ~Within(resource.Roles, scope.Identity.roles)

\* C8: a request whose identity lacks a required role of the resource is
\* answered 403, its scope has AccessDenied set, and it is never sent upstream.
C8_RoleDenial ==
    (Admitted /\ RoleLacking) =>
        /\ status = 403
        /\ scope.AccessDenied
        /\ upstream = 0

C8_Witness ==
    /\ pc = "done"
    /\ Ran("proxy")
    /\ Admitted
    /\ resource.Roles = <<"admin">>
    /\ ~resource.RequireAnyRole
    /\ scope.Identity.roles = <<"user">>
    /\ status = 403
    /\ upstream = 0

\* C9: the authentication stage calls refresh only after verification
\* returned ErrAccessTokenExpired with refresh tokens enabled; a request whose
\* token is expired while refresh is disabled is redirected to authorization.
C9_RefreshOnlyWhenExpired ==
    /\ auth.refreshCalls > 0 =>
           /\ auth.identityErr = Nil
           /\ auth.verifyCalls = 1
           /\ auth.verifyErr = ErrAccessTokenExpired
           /\ config.EnableRefreshTokens
    /\ auth.refreshCalls = 0 => auth.grants = 0
    /\ (auth.verifyErr = ErrAccessTokenExpired /\ ~config.EnableRefreshTokens) =>
           /\ auth.decision = "redirect"
           /\ "Location" \in header
           /\ scope.AccessDenied

C9_Witness ==
    /\ Ran("authentication")
    /\ auth.verifyErr = ErrAccessTokenExpired
    /\ config.EnableRefreshTokens
    /\ auth.refreshCalls = 1
    /\ auth.grants = 1

NoCredentials ==
    ~req.Authorization.present /\ ~HasCookie(req.Cookies, config.CookieAccessName)

FollowingStages ==
    {"csrfSkipResource", "admission", "csrfProtect", "csrfHeader", "identityHeaders", "proxy"}

\* C10: a request without bearer header and without access cookie is
\* redirected to authorization by the authentication stage, which verifies
\* and refreshes nothing and leaves the identity of the scope empty; the
\* following stages still run, on the denied scope the redirect returned.
C10_NoSessionRedirect ==
    (Ran("authentication") /\ (NoCredentials \/ auth.identityErr # Nil)) =>
        /\ auth.identityErr # Nil
        /\ auth.decision = "redirect"
        /\ "Location" \in header
        /\ scope.AccessDenied
        /\ auth.verifyCalls = 0
        /\ auth.refreshCalls = 0
        /\ scope.Identity = NoIdentity
        /\ \A stage \in FollowingStages : Ran(stage) => scope.AccessDenied
        /\ pc = "done" => \A stage \in FollowingStages : Ran(stage)

C10_Witness ==
    /\ pc = "done"
    /\ NoCredentials
    /\ auth.identityErr = ErrNoSessionFound
    /\ Ran("proxy")
    /\ scope.AccessDenied
    /\ upstream = 0

----------------------------------------------------------------------------
(* Claims about the outcomes of the authentication stage.                  *)

\* verification failed and the token is not merely expired
VerifyRefused ==
    /\ secure = "passed"
    /\ auth.verifyCalls = 1
    /\ auth.verifyErr \notin {Nil, ErrAccessTokenExpired}

\* C11: when verification of a request the secure filter passed fails for a
\* reason other than expiry the authentication stage answers 403: no redirect,
\* no refresh, no grant and no session cookie set (the only cookie such a
\* response can carry is the token cookie of the CSRF stage), also with
\* refresh tokens enabled; the scope is denied.
C11_VerifyFailureForbidden ==
    VerifyRefused =>
        /\ status = 403
        /\ "Location" \notin header
        /\ auth.refreshCalls = 0
        /\ auth.grants = 0
        /\ \A k \in 1..Len(resp) : resp[k].Name = CSRFCookieName
        /\ Ran("authentication") /\ ~Ran("csrfProtect") => resp = <<>>
        /\ scope.AccessDenied
        /\ upstream = 0

C11_Witness ==
    /\ VerifyRefused
    /\ auth.verifyErr = "required scope absent from provided scopes in token"
    /\ config.EnableRefreshTokens
    /\ req.Authorization.present
    /\ status = 403
    /\ pc = "done"
    /\ Ran("proxy")

CookieSession == ~req.Authorization.present /\ HasCookie(req.Cookies, config.CookieAccessName)

\* C12: when the token of a cookie session fails verification for a reason
\* other than expiry the response is 403 and clears the access and the
\* refresh envelope.
C12_VerifyFailureClearsSession ==
    (CookieSession /\ VerifyRefused) =>
        /\ status = 403
        /\ Cleared(config.CookieAccessName)
        /\ Cleared(config.CookieRefreshName)

CodecErrors == {ErrEncode, ErrEncryption}

\* the authentication stage called refresh for a request the secure filter passed
Refreshed == secure = "passed" /\ auth.refreshCalls = 1

\* C13: for a request the secure filter passed, a refresh that fails with
\* ErrEncode or ErrEncryption is answered 500 without a redirect; a refresh
\* that fails with any other error, also ErrRefreshTokenExpired, is
\* redirected to authorization and never answered 500.
C13_RefreshErrors ==
    /\ (Refreshed /\ auth.refreshErr \in CodecErrors) =>
           /\ status = 500
           /\ "Location" \notin header
    /\ (Refreshed /\ auth.refreshErr \notin CodecErrors \cup {Nil}) =>
           /\ "Location" \in header
           /\ status # 500
           /\ scope.AccessDenied

C13_Witness ==
    /\ Refreshed
    /\ auth.refreshErr = ErrEncryption
    /\ status = 500
    /\ pc = "done"

\* the authentication step in which a refresh succeeded: the provider has
\* answered the grant and r.refreshToken returns no error
RefreshSucceeds ==
    /\ pc = "refreshing"
    /\ pc' # "refreshing"
    /\ auth'.refreshCalls = 1
    /\ auth'.refreshErr = Nil

\* C14: the authentication step of a successful refresh leaves AccessDenied
\* unset, hands the request to the next stage, puts on the scope the identity
\* of the new access token, whose expiry is in the future and which the
\* access envelope of the response holds, and has sent exactly one
\* refresh_token grant.
C14_RefreshContinues ==
    [][(RefreshSucceeds /\ ~scope.AccessDenied) =>
          /\ ~scope'.AccessDenied
          /\ pc' = "csrfSkipResource"
          /\ status' = status
          /\ "Location" \notin header'
          /\ auth'.grants = 1
          /\ scope'.Identity.token \in RefreshedTokens
          /\ scope'.Identity.token # getIdentity(req).user.token
          /\ scope'.Identity.expiresAt = scope'.Identity.token.exp
          /\ scope'.Identity.expiresAt > now
          /\ readEnvelope(resp', config.CookieAccessName)
                = [found |-> TRUE, value |-> encoded(scope'.Identity.token)]]_vars

C14_Witness ==
    /\ auth.refreshCalls = 1
    /\ auth.refreshErr = Nil
    /\ auth.grants = 1
    /\ scope.Identity.token \in RefreshedTokens
    /\ pc = "done"
    /\ upstream = 1
    /\ status = 200

----------------------------------------------------------------------------
(* Claims about the CSRF stages.                                           *)

Bearer == req.Authorization.present

Unsafe == req.Method \notin {"GET", "HEAD", "OPTIONS", "TRACE"}

\* the CSRF protect stage compared the token of the request
TokenChecked == csrf \in {"passed", "rejected"}

\* the request as the skip-by-resource stage handed it on
AfterSkipResource == pc = "admission"

\* the request as it reaches the CSRF protect stage
AtProtect == pc = "csrfProtect"

\* C15: with CSRF protection on, every request with a bearer credential to a
\* resource with enable_csrf reaches the CSRF protect stage marked skip,
\* whatever its method.
C15_BearerMarkedSkip ==
    (AtProtect /\ Bearer /\ config.EnableCSRF /\ resource.EnableCSRF) => skipCheck

\* C16: the token of a request with a safe method is never checked and the
\* protect stage never stops the request, whatever the resource's
\* enable_csrf flag and the kind of credential.
C16_SafeMethodNeverChecked ==
    ~Unsafe =>
        /\ ~TokenChecked
        /\ Ran("csrfProtect") => csrf \in {"off", "skipped", "safe"}
        /\ (Ran("csrfProtect") /\ pc = "done") => Ran("csrfHeader")

C16_Witness ==
    /\ req.Method = "TRACE"
    /\ ~req.CSRFToken
    /\ CookieSession
    /\ config.EnableCSRF
    /\ resource.EnableCSRF
    /\ ~skipCheck
    /\ csrf = "safe"
    /\ upstream = 1

\* C17: a request with an unsafe method, authenticated by a cookie session,
\* to a resource with CSRF enabled reaches the protect stage without the skip
\* mark and has its CSRF token checked.
C17_CookieSessionChecked ==
    (/\ Ran("csrfProtect")
     /\ Unsafe
     /\ CookieSession
     /\ ~scope.Identity.isNil
     /\ config.EnableCSRF
     /\ resource.EnableCSRF) =>
        /\ ~skipCheck
        /\ TokenChecked

\* C18: a request to a CSRF-enabled resource whose scope has no identity or
\* has AccessDenied set leaves the skip-by-resource stage marked skip, and
\* the protect stage never rejects it, whatever its method.
C18_UnauthenticatedMarkedSkip ==
    (/\ Ran("authentication")
     /\ config.EnableCSRF
     /\ resource.EnableCSRF
     /\ scope.Identity.isNil \/ scope.AccessDenied) =>
        /\ AfterSkipResource => skipCheck
        /\ csrf # "rejected"

----------------------------------------------------------------------------
(* Claims about the admission stage and the identity headers.              *)

CheckOrder == <<"roles", "groups", "claims">>

\* C19: the admission step of a scope that is already denied evaluates no
\* check and hands the request on unchanged; otherwise it evaluates the
\* checks in the order roles, groups, claims up to the first that fails,
\* denies through accessForbidden if one fails, and in every case hands the
\* request to the next stage once.
C19_AdmissionShortCircuit ==
    [][pc = "admission" =>
          /\ pc' = "csrfProtect"
          /\ trace' = Append(trace, "admission")
          /\ scope.AccessDenied =>
                /\ adm' = <<>>
                /\ scope' = scope
                /\ status' = status
                /\ header' = header
                /\ resp' = resp
                /\ fwd' = fwd
          /\ ~scope.AccessDenied =>
                /\ Len(adm') \in 1..3
                /\ \A i \in 1..Len(adm') : adm'[i].check = CheckOrder[i]
                /\ \A i \in 1..(Len(adm') - 1) : adm'[i].ok
                /\ Len(adm') < 3 => ~adm'[Len(adm')].ok
                /\ IF adm'[Len(adm')].ok
                   THEN scope' = scope /\ status' = status
                   ELSE /\ scope'.AccessDenied
                        /\ scope'.Identity = scope.Identity
                        /\ status' = 403]_vars

C19_Witness ==
    /\ pc = "done"
    /\ Ran("proxy")
    /\ Len(adm) = 2
    /\ ~adm[2].ok
    /\ DOMAIN config.MatchClaims # {}
    /\ ~AllSatisfied
    /\ scope.AccessDenied
    /\ status = 403
    /\ upstream = 0

ClaimHeaders ==
    {"X-Auth-Audience", "X-Auth-Email", "X-Auth-ExpiresIn", "X-Auth-Groups", "X-Auth-Roles",
     "X-Auth-Subject", "X-Auth-Userid", "X-Auth-Username"}

\* the value the claim headers setter gives the header h
ClaimHeader(h, user) ==
    CASE h = "X-Auth-Audience" -> Join(user.audiences, ",")
      [] h = "X-Auth-Email" -> user.email
      [] h = "X-Auth-ExpiresIn" -> user.expiresAt
      [] h = "X-Auth-Groups" -> Join(user.groups, ",")
      [] h = "X-Auth-Roles" -> Join(user.roles, ",")
      [] h = "X-Auth-Subject" -> user.id
      [] OTHER -> user.name

\* the configured custom claims the identity has whose header is h
CustomFor(h, user) ==
    {c \in config.CustomClaims : c \in DOMAIN user.claims /\ toHeader(c) = h}

\* the cookie as the upstream gets it when the session cookies are filtered:
\* the value is censored when the name begins with the access or the refresh
\* cookie name
Redacted(c) ==
    IF \E base \in {config.CookieAccessName, config.CookieRefreshName} :
          /\ Len(c.Name) >= Len(base)
          /\ \A j \in 1..Len(base) : c.Name[j] = base[j]
    THEN [Name |-> c.Name, Value |-> <<"censored">>]
    ELSE c

\* the headers the setters write for the identity
Written(user) ==
    (IF config.EnableClaimsHeaders
     THEN ClaimHeaders \cup {toHeader(c) : c \in config.CustomClaims \cap DOMAIN user.claims}
     ELSE {})
    \cup (IF config.EnableTokenHeader THEN {"X-Auth-Token"} ELSE {})
    \cup (IF config.EnableAuthorizationHeader THEN {"Authorization"} ELSE {})

\* the value of header h after the setters ran in the order claim headers,
\* token, authorization, cookie filter, and before the custom claims
Standard(h, old, user) ==
    IF h = "Authorization" /\ config.EnableAuthorizationHeader
    THEN [scheme |-> "Bearer", token |-> user.token]
    ELSE IF h = "X-Auth-Token" /\ config.EnableTokenHeader
    THEN user.token
    ELSE IF h \in ClaimHeaders /\ config.EnableClaimsHeaders
    THEN ClaimHeader(h, user)
    ELSE IF h = "Cookie" /\ ~config.EnableAuthorizationCookies
    THEN [k \in 1..Len(old[h]) |-> Redacted(old[h][k])]
    ELSE old[h]

\* the values header h may have after the custom claims ran last: the value
\* of a custom claim of that header when there is one (of the claim the map
\* range visits last when there are several), the standard value otherwise
Forwarded(h, old, user) ==
    IF config.EnableClaimsHeaders /\ CustomFor(h, user) # {}
    THEN {SprintfV(user.claims[c]) : c \in CustomFor(h, user)}
    ELSE {Standard(h, old, user)}

\* C20: the identity headers step of a scope without identity leaves the
\* request headers and the Cookie header unchanged; with an identity every
\* header has the value of the last enabled setter in the order claim
\* headers, X-Auth-Token, Authorization, cookie filter, custom claims: a
\* custom claim stands over the standard X-Auth-* value of its header and
\* Authorization is Bearer <the access token of the identity> when its setter
\* is enabled.  The request goes to the next stage in both cases.
C20_IdentityHeaders ==
    [][pc = "identityHeaders" =>
          /\ pc' = "proxy"
          /\ scope.Identity.isNil => fwd' = fwd
          /\ ~scope.Identity.isNil =>
                /\ DOMAIN fwd' = DOMAIN fwd \cup Written(scope.Identity)
                /\ \A h \in DOMAIN fwd' : fwd'[h] \in Forwarded(h, fwd, scope.Identity)]_vars

C20_Witness ==
    /\ Ran("identityHeaders")
    /\ ~scope.Identity.isNil
    /\ CookieSession
    /\ config.EnableClaimsHeaders
    /\ config.EnableAuthorizationHeader
    /\ ~config.EnableAuthorizationCookies
    /\ config.CustomClaims = {"groups", "item"}
    /\ fwd["X-Auth-Groups"] = <<"[", "g1", " ", "g2", "]">>
    /\ fwd["X-Auth-Item"] = <<"1", "2">>
    /\ fwd["X-Auth-Roles"] = <<"admin", ",", "user">>
    /\ fwd["Authorization"] = [scheme |-> "Bearer", token |-> scope.Identity.token]
    /\ Len(fwd["Cookie"]) = 7
    /\ fwd["Cookie"][2] = Cookie(AccessName, <<"censored">>)
    /\ fwd["Cookie"][4] = Cookie(AccessName \o <<"-", "x">>, <<"censored">>)
    /\ fwd["Cookie"][7] = Cookie(OtherName \o <<"-", "1">>, <<>>)

----------------------------------------------------------------------------
(* removeCookiesFromRequest on its own: a request with a Cookie header of   *)
(* one or two lines is stripped of a set of names, several times in a row.  *)

\* the number of times the filter is applied to one request
MaxStrips == 2

\* the names of a request's cookies: an envelope, its chunks, names with two
\* suffixes or a suffix that is no number, and cookies of the application
StripNames ==
    << AccessName, AccessName \o <<"-", "1">>, AccessName \o <<"-", "1", "2">>,
       AccessName \o <<"-", "1", "-", "2">>, AccessName \o <<"-", "x">>,
       RefreshName \o <<"-", "2">>, OtherName \o <<"-", "1">> >>

RECURSIVE PickStripped(_, _)
PickStripped(S, k) ==
    IF k > Len(StripNames) THEN <<>>
    ELSE (IF k \in S THEN <<[Name |-> StripNames[k], Value |-> <<k>>]>> ELSE <<>>)
         \o PickStripped(S, k + 1)

\* the cookies in one Cookie line, or the first one in a line of its own
CookieLines(cookies) ==
    IF cookies = <<>> THEN {<<>>}
    ELSE {<<cookies>>, <<<<Head(cookies)>>, Tail(cookies)>>}

StripHeaders ==
    UNION {CookieLines(PickStripped(S, 1)) : S \in SUBSET (1..Len(StripNames))}

RemovedSets ==
    { {}, {AccessName}, {AccessName, RefreshName}, {AccessName \o <<"-", "1">>}, {OtherName} }

\* the request as it arrived, the set of names to remove, and the Cookie
\* header after each application so far
StripInit ==
    /\ config = [CookieDomain |-> <<>>, HTTPOnlyCookie |-> TRUE, SecureCookie |-> FALSE,
                 EnableSessionCookies |-> FALSE,
                 CookieAccessName |-> AccessName, CookieRefreshName |-> RefreshName]
    /\ now = 0
    /\ phase = "idle"
    /\ \E lines \in StripHeaders :
          req = [Host |-> <<>>, Cookies |-> Cookies(lines), Header |-> lines]
    /\ \E removed \in RemovedSets : call = [op |-> "strip", removed |-> removed, after |-> <<>>]
    /\ resp = <<>>
    /\ panicked = FALSE
    /\ ChainOff

StripHeader == IF call.after = <<>> THEN req.Header ELSE call.after[Len(call.after)]

Strip ==
    /\ call.op = "strip"
    /\ Len(call.after) < MaxStrips
    /\ call' = [call EXCEPT
                  !.after = Append(@, removeCookiesFromRequest(StripHeader, call.removed))]
    /\ phase' = "handled"
    /\ UNCHANGED <<config, now, req, resp, panicked, chainVars, sharedVars>>

StripNext == Strip

StripSpec == StripInit /\ [][StripNext]_vars

\* the name ends with -<digits> after the prefix p
ChunkOf(name, p) ==
    /\ Len(name) >= Len(p) + 2
    /\ SubSeq(name, 1, Len(p)) = p
    /\ name[Len(p) + 1] = "-"
    /\ \A i \in (Len(p) + 2)..Len(name) : name[i] \in Range(Digits)

\* the name, with one final -<digits> stripped, is in the set
Removable(name, removed) ==
    \/ \E p \in removed : ChunkOf(name, p)
    \/ name \in removed /\ ~\E i \in 1..Len(name) : ChunkOf(name, SubSeq(name, 1, i - 1))

\* the cookies of the list that are not removable, in order
Remaining(cookies, removed) ==
    SelectSeq(cookies, LAMBDA c : ~Removable(c.Name, removed))

\* C21: stripping is idempotent: applying removeCookiesFromRequest twice
\* leaves the same Cookie header as applying it once; a cookie is removed iff
\* its name with one final -<digits> stripped is in the set, the others stay
\* in order, and when no cookie is removed the header is left as it was.
C21_StripIdempotent ==
    call.op = "strip" =>
        /\ Len(call.after) >= 1 =>
              /\ Cookies(call.after[1]) = Remaining(req.Cookies, call.removed)
              /\ (Remaining(req.Cookies, call.removed) = req.Cookies)
                    => call.after[1] = req.Header
        /\ \A i \in 2..Len(call.after) : call.after[i] = call.after[1]

\* a header of two lines loses a chunk cookie and keeps a cookie with two
\* suffixes, and the filter has run twice
C21_Witness ==
    /\ call.op = "strip"
    /\ Len(call.after) = 2
    /\ Len(req.Header) = 2
    /\ call.removed = {AccessName}
    /\ \E i \in 1..Len(req.Cookies) : req.Cookies[i].Name = AccessName \o <<"-", "1", "2">>
    /\ \E i \in 1..Len(Cookies(call.after[2])) :
          Cookies(call.after[2])[i].Name = AccessName \o <<"-", "1", "-", "2">>
    /\ Len(Cookies(call.after[2])) < Len(req.Cookies)

----------------------------------------------------------------------------
(* Claims about the state-parameter cookies.                               *)

\* the value of a character of the base64 alphabet
Unsextet(c) == (CHOOSE j \in 1..Len(StdAlphabet) : StdAlphabet[j] = c) - 1

\* base64 decoding of a padded text: four characters give three bytes, fewer
\* for a group that ends with =
RECURSIVE Decode(_)
Decode(t) ==
    IF Len(t) < 4 THEN <<>>
    ELSE LET pad == IF t[3] = "=" THEN 2 ELSE IF t[4] = "=" THEN 1 ELSE 0
             n == Unsextet(t[1]) * 262144 + Unsextet(t[2]) * 4096
                  + (IF pad < 2 THEN Unsextet(t[3]) * 64 ELSE 0)
                  + (IF pad < 1 THEN Unsextet(t[4]) ELSE 0)
             bytes == <<n \div 65536, (n \div 256) % 256, n % 256>>
         IN  SubSeq(bytes, 1, 3 - pad) \o Decode(SubSeq(t, 5, Len(t)))

StateWritten == phase = "handled" /\ call.op = "state"

\* C22: writeStateParameterCookie emits the request_uri and the request_state
\* cookie, both without an Expires attribute under every configuration; the
\* state it returns is the value of the request_state cookie, and the value of
\* the request_uri cookie base64-decodes to the request URI of the request.
C22_StateCookies ==
    StateWritten =>
        /\ Len(resp) = 2
        /\ resp[1].Name = requestURICookie
        /\ resp[2].Name = requestStateCookie
        /\ \A k \in 1..2 : resp[k].Expires.IsZero
        /\ resp[2].Value = call.state
        /\ Len(resp[1].Value) % 4 = 0
        /\ StringOf(Decode(resp[1].Value)) = call.target

\* session cookies are disabled, the clock has advanced, and the request had a
\* query
C22_Witness ==
    /\ StateWritten
    /\ ~config.EnableSessionCookies
    /\ now > 0
    /\ call.target = <<"/", "a", "p", "i", "?", "x", "=", "1">>
    /\ call.state = <<"u", "2">>
    /\ resp[1].Value = <<"L", "2", "F", "w", "a", "T", "9", "4", "P", "T", "E", "=">>

----------------------------------------------------------------------------
(* Concurrent handling.  Every request is served by a task of its own; the  *)
(* tasks of the model serve copies of the same request (req) for the same   *)
(* resource, and take their steps in any order.  A task yields where the    *)
(* handler waits for the provider.  The RequestScope of a task is an object *)
(* on the heap that the request context points to.  The stages that touch   *)
(* neither the scope nor the provider are left out of a task's chain.       *)

\* the number of requests handled at the same time
MaxTasks == 2

Tasks == 1..MaxTasks

EmptyScope == [Identity |-> NoIdentity, AccessDenied |-> FALSE]

NewTask(r) ==
    [pc |-> "entrypoint", req |-> r, keep |-> <<>>, scope |-> 0, status |-> 0, header |-> {}, resp |-> <<>>,
     secure |-> "none", auth |-> NoAuth, adm |-> <<>>, upstream |-> 0]

\* one scope object for every request
allocShared(h) ==
    [heap |-> IF h = <<>> THEN <<EmptyScope>> ELSE [h EXCEPT ![1] = EmptyScope], addr |-> 1]

\* scope := &RequestScope{}: a new object, at an address no other holds
alloc(h) == [heap |-> Append(h, EmptyScope), addr |-> Len(h) + 1]

\* the state a handler of task t works on: its response, and the scope its
\* context points to
TaskSt(t) ==
    [scope |-> heap[tasks[t].scope], status |-> tasks[t].status,
     header |-> tasks[t].header, resp |-> tasks[t].resp]

\* the task after a handler left the state st and handed on to stage `to`
TaskAfter(t, st, to) ==
    [tasks[t] EXCEPT !.pc = to, !.status = st.status, !.header = st.header, !.resp = st.resp]

\* the answers of the provider to a refresh_token grant for the token rt: a
\* provider that revokes a refresh token on use refuses it the second time
grantAnswers(rt) ==
    IF idp.singleUse /\ rt \in idp.redeemed THEN {"error"} ELSE {"ok", "rotated"}

\* the handler sends a refresh_token grant for this request
SendsGrant(t) == sendsGrant(TaskSt(t))

\* entrypointMiddleware up to its call of next, for the request of task t:
\* the path is kept and normalised, and the request has a fresh RequestScope
TaskEntrypoint(t) ==
    /\ tasks[t].pc = "entrypoint"
    /\ LET a == alloc(heap) IN
       /\ heap' = a.heap
       /\ tasks' = [tasks EXCEPT ![t] =
                      [@ EXCEPT !.pc = "security", !.scope = a.addr,
                                !.keep = tasks[t].req.URL.Path,
                                !.req = entrypointRequest(
                                            tasks[t].req,
                                            rootedPath(NormalizeURL(tasks[t].req.URL.Path)))]]
    /\ UNCHANGED <<config, now, req, resp, cookieVars, chainVars, idp, store>>

\* entrypointMiddleware after next has returned (lines 64-66), for task t
TaskEntrypointReturns(t) ==
    /\ tasks[t].pc = "done"
    /\ tasks' = [tasks EXCEPT ![t] =
                   [@ EXCEPT !.pc = "returned",
                             !.req = [@ EXCEPT !.URL.Path = tasks[t].keep,
                                              !.URL.RawPath = tasks[t].keep,
                                              !.RequestURI = tasks[t].keep]]]
    /\ UNCHANGED <<config, now, req, resp, cookieVars, chainVars, heap, idp, store>>

TaskSecurity(t) ==
    /\ tasks[t].pc = "security"
    /\ \E ok \in BOOLEAN :
         LET st == IF ok THEN TaskSt(t) ELSE accessForbidden(WriteHeader(TaskSt(t), 500)) IN
         /\ heap' = [heap EXCEPT ![tasks[t].scope] = st.scope]
         /\ tasks' = [tasks EXCEPT ![t] =
                        [TaskAfter(t, st, "authentication") EXCEPT
                            !.secure = IF ok THEN "passed" ELSE "failed"]]
    /\ UNCHANGED <<config, now, req, resp, cookieVars, chainVars, idp, store>>

\* the handler of task t has returned r
TaskAuthenticated(t, r) ==
    /\ heap' = [heap EXCEPT ![tasks[t].scope] = r.st.scope]
    /\ tasks' = [tasks EXCEPT ![t] =
                   [TaskAfter(t, r.st, IF r.next THEN "admission" ELSE "done")
                       EXCEPT !.auth = r.auth]]

\* authenticationMiddleware up to the call of the provider: the identity is
\* stored in the scope (line 132) and the task waits for the answer; a
\* request that needs no grant is handled to the end
TaskAuthenticate(t) ==
    /\ tasks[t].pc = "authentication"
    /\ IF SendsGrant(t)
       THEN /\ heap' = [heap EXCEPT ![tasks[t].scope].Identity =
                                         getIdentity(tasks[t].req).user]
            /\ tasks' = [tasks EXCEPT ![t].pc = "refreshing"]
       ELSE \E uuid \in UUIDs :
              TaskAuthenticated(t, authenticationMiddleware(TaskSt(t), "ok",
                                                            CHOOSE tok \in RefreshedTokens : TRUE,
                                                            uuid))
    /\ UNCHANGED <<config, now, req, resp, cookieVars, chainVars, idp, store>>

\* the provider answers the grant and the handler finishes
TaskRefreshed(t) ==
    /\ tasks[t].pc = "refreshing"
    /\ \E outcome \in grantAnswers(RefreshCookie.value), newTok \in RefreshedTokens,
          uuid \in UUIDs :
         TaskAuthenticated(t, authenticationMiddleware(TaskSt(t), outcome, newTok, uuid))
    /\ idp' = [idp EXCEPT !.redeemed = @ \cup {RefreshCookie.value}]
    /\ UNCHANGED <<config, now, req, resp, cookieVars, chainVars, store>>

TaskAdmission(t) ==
    /\ tasks[t].pc = "admission"
    /\ IF heap[tasks[t].scope].AccessDenied
       THEN /\ tasks' = [tasks EXCEPT ![t].pc = "proxy"]
            /\ UNCHANGED heap
       ELSE LET checks == admissionChecks(resource, heap[tasks[t].scope].Identity)
                st == IF checks[Len(checks)].ok THEN TaskSt(t) ELSE accessForbidden(TaskSt(t))
            IN  /\ heap' = [heap EXCEPT ![tasks[t].scope] = st.scope]
                /\ tasks' = [tasks EXCEPT ![t] = [TaskAfter(t, st, "proxy") EXCEPT !.adm = checks]]
    /\ UNCHANGED <<config, now, req, resp, cookieVars, chainVars, idp, store>>

TaskProxy(t) ==
    /\ tasks[t].pc = "proxy"
    /\ IF heap[tasks[t].scope].AccessDenied
       THEN tasks' = [tasks EXCEPT ![t].pc = "done"]
       ELSE tasks' = [tasks EXCEPT ![t] =
                        [TaskAfter(t, WriteHeader(TaskSt(t), 200), "done")
                            EXCEPT !.upstream = @ + 1]]
    /\ UNCHANGED <<config, now, req, resp, cookieVars, chainVars, heap, idp, store>>

\* the cookie sessions the tasks serve: a valid one, and an expired one with
\* and without the refresh cookie
TaskCredentials ==
    {[Authorization |-> [present |-> FALSE],
      Cookies |-> <<Cookie(AccessName, <<Token(v[1], ExpOf(v[1]), <<"user">>, <<>>, NoClaims)>>)>>
                  \o v[2]] :
        v \in {<<"ok", <<Cookie(RefreshName, <<"rt">>)>>>>,
               <<"expired", <<Cookie(RefreshName, <<"rt">>)>>>>,
               <<"expired", <<>>>>}}

TaskInit ==
    /\ config = Config(FALSE, TRUE, FALSE, <<>>, NoMatchClaims)
    /\ resource \in {Resource(r, FALSE, <<>>, FALSE) : r \in {<<>>, <<"admin">>}}
    /\ \E c \in TaskCredentials : req = Request([Method |-> "GET", CSRFToken |-> FALSE], c)
    /\ now = 0
    /\ CookiesIdle
    /\ resp = <<>>
    /\ pc = "off"
    /\ scope = NoScope
    /\ status = 0
    /\ header = {}
    /\ skipCheck = FALSE
    /\ csrf = "none"
    /\ fwd = <<>>
    /\ trace = <<>>
    /\ auth = NoAuth
    /\ adm = <<>>
    /\ upstream = 0
    /\ secure = "none"
    /\ keep = <<>>
    /\ tasks = [t \in Tasks |-> NewTask(req)]
    /\ heap = <<>>
    /\ idp \in [singleUse : BOOLEAN, redeemed : {{}}]
    /\ store = <<>>

TaskNext ==
    \E t \in Tasks :
        \/ TaskEntrypoint(t)
        \/ TaskSecurity(t)
        \/ TaskAuthenticate(t)
        \/ TaskRefreshed(t)
        \/ TaskAdmission(t)
        \/ TaskProxy(t)
        \/ TaskEntrypointReturns(t)

TaskSpec == TaskInit /\ [][TaskNext]_vars

\* both requests carry the same expired access token and the same refresh
\* cookie, and refresh is enabled
SameExpiredSession ==
    /\ config.EnableRefreshTokens
    /\ CookieSession
    /\ readEnvelope(req.Cookies, config.CookieAccessName).value[1].verify = "expired"
    /\ RefreshCookie.found

AfterAuthentication(t) == tasks[t].pc \in {"admission", "proxy", "done", "returned"}

\* C23: two requests of the same session, both with the same expired access
\* token and the same refresh cookie, handled concurrently without a refresh
\* store: each sends its own grant and each ends with a new access envelope
\* and a continued chain; neither is redirected or denied because of the other.
C23_ConcurrentRefresh ==
    SameExpiredSession =>
        \A t \in Tasks :
            (AfterAuthentication(t) /\ tasks[t].secure = "passed") =>
                /\ tasks[t].auth.grants = 1
                /\ tasks[t].auth.decision = "continue"
                /\ ~heap[tasks[t].scope].Identity.isNil
                /\ readEnvelope(tasks[t].resp, config.CookieAccessName).found
                /\ "Location" \notin tasks[t].header


\* task t has entered the chain: its context points to a scope
Scoped(t) == tasks[t].scope # 0

\* C24: a request entering entrypointMiddleware gets a fresh RequestScope,
\* with no identity and access_denied false, that no other request points to;
\* and under any interleaving a step of one task leaves the scope of every
\* other task as it was.
C24_ScopeIsolation ==
    [][\A t \in Tasks :
          /\ (tasks[t].pc = "entrypoint" /\ tasks'[t].pc # "entrypoint") =>
                /\ heap'[tasks'[t].scope] = EmptyScope
                /\ \A u \in Tasks \ {t} : tasks'[u].scope # tasks'[t].scope
          /\ (tasks'[t] # tasks[t]) =>
                \A u \in Tasks \ {t} :
                    Scoped(u) => /\ tasks'[u].scope = tasks[u].scope
                                 /\ heap'[tasks[u].scope] = heap[tasks[u].scope]
      ]_vars

\* one task was denied by the secure filter while another, not denied, holds
\* the identity its own refresh gave it, and the two identities differ
C24_Witness ==
    \E t \in Tasks, u \in Tasks :
        /\ t # u
        /\ Scoped(t) /\ Scoped(u)
        /\ tasks[t].pc = "done" /\ tasks[u].pc = "done"
        /\ tasks[t].secure = "failed"
        /\ heap[tasks[t].scope].AccessDenied
        /\ ~heap[tasks[u].scope].AccessDenied
        /\ tasks[u].auth.grants = 1
        /\ tasks[u].upstream = 1
        /\ heap[tasks[u].scope].Identity # heap[tasks[t].scope].Identity

----------------------------------------------------------------------------
(* stores.go: the refresh store behind the proxy's wrappers.  The store is  *)
(* a map from keys to values: Set overwrites, Get gives the value or the    *)
(* empty string, Delete tolerates a missing key.                            *)

\* the number of store operations of a run
MaxOps == 3

ErrNoSessionStateFound == "ErrNoSessionStateFound"

\* getHashKey: a digest of the encoded token, taken as free of collisions
getHashKey(token) == <<"md5", token>>

storeSet(st, key, value) == [k \in DOMAIN st \cup {key} |-> IF k = key THEN value ELSE st[k]]

storeGet(st, key) == IF key \in DOMAIN st THEN st[key] ELSE <<>>

storeDelete(st, key) == [k \in DOMAIN st \ {key} |-> st[k]]

StoreRefreshToken(st, token, value) ==
    [store |-> storeSet(st, getHashKey(token), value), err |-> Nil]

\* the value of the store, whatever it is
GetRefreshTokenUnchecked(st, token) == [v |-> storeGet(st, getHashKey(token)), err |-> Nil]

GetRefreshToken(st, token) ==
    LET v == storeGet(st, getHashKey(token)) IN
    IF v = <<>> THEN [v |-> v, err |-> ErrNoSessionStateFound] ELSE [v |-> v, err |-> Nil]

DeleteRefreshToken(st, token) ==
    [store |-> storeDelete(st, getHashKey(token)), err |-> Nil]

\* the access tokens of two sessions, and the refresh tokens stored for them
StoreTokens == {Token("ok", 60, <<r>>, <<>>, NoClaims) : r \in {"user", "admin"}}
StoreValues == { <<>>, <<"r", "1">>, <<"r", "2">> }

StoreInit ==
    /\ config = Config(FALSE, TRUE, FALSE, <<>>, NoMatchClaims)
    /\ now = 0
    /\ req = [Host |-> <<>>, Cookies |-> <<>>]
    /\ resp = <<>>
    /\ CookiesIdle
    /\ ChainOff

StoreOp ==
    /\ Len(trace) < MaxOps
    /\ \E token \in StoreTokens, value \in StoreValues :
         LET r == StoreRefreshToken(store, token, value) IN
         /\ store' = r.store
         /\ call' = [op |-> "store", token |-> token, v |-> value, err |-> r.err]
    /\ trace' = Append(trace, call')
    /\ UNCHANGED <<config, now, keep, req, resp, phase, panicked, pc, resource, scope, status, header, skipCheck, csrf, fwd, auth, adm, upstream, secure, tasks, heap, idp>>

GetOp ==
    /\ Len(trace) < MaxOps
    /\ \E token \in StoreTokens :
         LET r == GetRefreshToken(store, token) IN
         call' = [op |-> "get", token |-> token, v |-> r.v, err |-> r.err]
    /\ trace' = Append(trace, call')
    /\ UNCHANGED <<config, now, keep, req, resp, phase, panicked, pc, resource, scope, status, header, skipCheck, csrf, fwd, auth, adm, upstream, secure, tasks, heap, idp, store>>

DeleteOp ==
    /\ Len(trace) < MaxOps
    /\ \E token \in StoreTokens :
         LET r == DeleteRefreshToken(store, token) IN
         /\ store' = r.store
         /\ call' = [op |-> "delete", token |-> token, v |-> <<>>, err |-> r.err]
    /\ trace' = Append(trace, call')
    /\ UNCHANGED <<config, now, keep, req, resp, phase, panicked, pc, resource, scope, status, header, skipCheck, csrf, fwd, auth, adm, upstream, secure, tasks, heap, idp>>

StoreNext == StoreOp \/ GetOp \/ DeleteOp

StoreSpec == StoreInit /\ [][StoreNext]_vars

\* the value the operations before the i-th left for the token: that of its
\* last Store, or nothing after a Delete or without any
RECURSIVE Held(_, _)
Held(i, token) ==
    IF i <= 1 THEN <<>>
    ELSE LET e == trace[i - 1] IN
         IF e.token = token /\ e.op = "store" THEN e.v
         ELSE IF e.token = token /\ e.op = "delete" THEN <<>>
         ELSE Held(i - 1, token)

\* C25: over any sequence of operations, GetRefreshToken(t) returns the value
\* of the last StoreRefreshToken(t, v) when that value is not empty and no
\* DeleteRefreshToken(t) came after it, and ErrNoSessionStateFound otherwise
\* (no entry, an empty value, or deleted); Store and Delete return no error,
\* Delete also for a missing key; operations on another token change nothing
\* for t, and every key of the store is the key of a token.
C25_StoreSemantics ==
    /\ \A i \in 1..Len(trace) :
          LET e == trace[i] IN
          IF e.op = "get"
          THEN /\ e.v = Held(i, e.token)
               /\ e.err = IF Held(i, e.token) = <<>> THEN ErrNoSessionStateFound ELSE Nil
          ELSE e.err = Nil
    /\ \A k \in DOMAIN store : \E t \in StoreTokens : k = getHashKey(t)

\* a value is stored for a token, overwritten, and the second value is read
\* back
C25_Witness ==
    /\ Len(trace) = 3
    /\ trace[1].op = "store" /\ trace[1].v = <<"r", "1">>
    /\ trace[2].op = "store" /\ trace[2].v = <<"r", "2">> /\ trace[2].token = trace[1].token
    /\ trace[3].op = "get" /\ trace[3].token = trace[1].token /\ trace[3].v = <<"r", "2">>
    /\ trace[3].err = Nil

----------------------------------------------------------------------------
(* verifyToken on its own: tokens whose scope claim has every shape, under  *)
(* every list of required scopes.                                           *)

\* the scope claim of a token: absent, a string of entries, or another type
ScopeShapes ==
    { Absent, JString(<<>>), JString(ReadOnly), JString(WriteOnly), JString(ReadWrite),
      JString(<<"w", " ", "r">>), JString(<<"r", "w">>), JString(<<"r", " ", " ", "w">>),
      JString(<<"r", ",", "w">>), JNumber(1), JBool(TRUE),
      JList(<<JString(ReadOnly), JString(WriteOnly)>>) }

RequiredLists == { <<>>, <<WriteOnly>>, <<ReadOnly, WriteOnly>> }

VerifyInit ==
    /\ \E sc \in RequiredLists : config = Config(FALSE, FALSE, FALSE, sc, NoMatchClaims)
    /\ resource = Resource(<<>>, FALSE, <<>>, FALSE)
    /\ \E v \in {"ok", "expired", "invalid"}, shape \in ScopeShapes :
          req = Request([Method |-> "GET", CSRFToken |-> FALSE],
                        [Authorization |->
                            [present |-> TRUE,
                             token |-> Token(v, ExpOf(v), <<"user">>, <<>>,
                                             TokenClaims(Absent, shape))],
                         Cookies |-> <<>>])
    /\ now = 0
    /\ CookiesIdle
    /\ resp = <<>>
    /\ pc = "off"
    /\ scope = NoScope
    /\ status = 0
    /\ header = {}
    /\ skipCheck = FALSE
    /\ csrf = "none"
    /\ fwd = <<>>
    /\ trace = <<>>
    /\ auth = NoAuth
    /\ adm = <<>>
    /\ upstream = 0
    /\ secure = "none"
    /\ keep = <<>>
    /\ SharedIdle

\* one call of r.verifyToken(r.client, user.token)
VerifyToken ==
    /\ auth.verifyCalls = 0
    /\ auth' = [auth EXCEPT !.verifyCalls = 1, !.verifyErr = verifyToken(req.Authorization.token)]
    /\ UNCHANGED <<config, now, keep, req, resp, cookieVars, sharedVars, pc, resource, scope, status, header, skipCheck, csrf, fwd, trace, adm, upstream, secure>>

VerifyNext == VerifyToken

VerifySpec == VerifyInit /\ [][VerifyNext]_vars

\* e is one of the entries of s that single spaces separate
EntryOf(e, s) ==
    /\ " " \notin Range(e)
    /\ \E i \in 1..(Len(s) + 1) :
          /\ i + Len(e) - 1 <= Len(s)
          /\ SubSeq(s, i, i + Len(e) - 1) = e
          /\ (i = 1 \/ s[i - 1] = " ")
          /\ (i + Len(e) - 1 = Len(s) \/ s[i + Len(e)] = " ")

\* the scope claim is a string whose entries include every required scope
HasRequiredScopes(token) ==
    /\ "scope" \in DOMAIN token.claims
    /\ token.claims["scope"].t = "string"
    /\ \A k \in 1..Len(config.RequiredScopes) :
          EntryOf(config.RequiredScopes[k], token.claims["scope"].v)

Verified == auth.verifyCalls = 1 /\ req.Authorization.present

\* C26: with required scopes configured, verifyToken succeeds on a token with
\* a valid signature iff its scope claim is a string whose space-separated
\* entries include every required scope; a missing claim, a claim of another
\* type or a missing entry gives an error that is not ErrAccessTokenExpired;
\* with no required scopes the scope claim is not inspected.
C26_RequiredScopes ==
    (Verified /\ req.Authorization.token.verify = "ok") =>
        /\ Len(config.RequiredScopes) = 0 => auth.verifyErr = Nil
        /\ Len(config.RequiredScopes) > 0 =>
              /\ auth.verifyErr = Nil <=> HasRequiredScopes(req.Authorization.token)
              /\ auth.verifyErr # ErrAccessTokenExpired

\* two scopes are required and the token carries them in the other order
C26_Witness ==
    /\ Verified
    /\ config.RequiredScopes = <<ReadOnly, WriteOnly>>
    /\ req.Authorization.token.verify = "ok"
    /\ req.Authorization.token.claims["scope"] = JString(<<"w", " ", "r">>)
    /\ auth.verifyErr = Nil

(***************************************************************************)
(* Upstream routing (upstreams_test.go).  A path is a sequence of segments: *)
(* "/api2/another-fake" is <<"api2", "another-fake">>.  RouteSpec forwards   *)
(* one request that has passed the chain of its resource.                   *)
(***************************************************************************)
e2eUpstreamsUpstreamListener1 == "127.0.0.1:18512"
e2eUpstreamsUpstreamListener2 == "127.0.0.1:8512"
e2eUpstreamsUpstreamListener3 == "127.0.0.1:7512"
e2eUpstreamsUpstreamURL1 == <<"api1">>
e2eUpstreamsUpstreamURL2 == <<"api2">>
e2eUpstreamsUpstreamURL3 == <<"api3">>

\* an upstream URL "http://" + host + path; NoUpstream is the empty string
UpstreamURL(host, path) == [host |-> host, path |-> path]
NoUpstream == UpstreamURL("", <<>>)

\* the Resource fields that routing reads
UpstreamResource(url, up, strip) == [URL |-> url, Upstream |-> up, StripBasePath |-> strip]

\* the configuration of testBuildUpstreamsConfig
testBuildUpstreamsConfig ==
    [Upstream |-> UpstreamURL(e2eUpstreamsUpstreamListener3, <<>>),
     Resources |->
        << UpstreamResource(<<"fake">>,
                            UpstreamURL(e2eUpstreamsUpstreamListener1, e2eUpstreamsUpstreamURL1),
                            <<"fake">>),
           UpstreamResource(<<"another-fake">>,
                            UpstreamURL(e2eUpstreamsUpstreamListener2, e2eUpstreamsUpstreamURL2),
                            <<>>),
           UpstreamResource(<<"again-a-fake">>, NoUpstream, <<>>) >>]

\* the fake upstream servers of TestUpstreams: the body each one answers with
\* on its route, <<>> (a 404) anywhere else
runTestUpstream(host, path) ==
    CASE host = e2eUpstreamsUpstreamListener1 /\ path = e2eUpstreamsUpstreamURL1 -> <<"mark1">>
      [] host = e2eUpstreamsUpstreamListener2
            /\ path = e2eUpstreamsUpstreamURL2 \o <<"another-fake">> -> <<"mark2">>
      [] host = e2eUpstreamsUpstreamListener3 /\ path = e2eUpstreamsUpstreamURL3 -> <<"mark3">>
      [] OTHER -> <<>>

\* the index of the first resource whose URL is a prefix of the path, 0 if none
matchResource(resources, path) ==
    IF \E i \in 1..Len(resources) : HasPrefix(path, resources[i].URL)
    THEN CHOOSE i \in 1..Len(resources) :
            /\ HasPrefix(path, resources[i].URL)
            /\ \A j \in 1..(i - 1) : ~HasPrefix(path, resources[j].URL)
    ELSE 0

\* every request goes to the first upstream override that is configured
upstreamFirstOverride(cfg, path) ==
    IF \E i \in 1..Len(cfg.Resources) : cfg.Resources[i].Upstream # NoUpstream
    THEN cfg.Resources[CHOOSE i \in 1..Len(cfg.Resources) :
                          /\ cfg.Resources[i].Upstream # NoUpstream
                          /\ \A j \in 1..(i - 1) : cfg.Resources[j].Upstream = NoUpstream].Upstream
    ELSE cfg.Upstream

\* the upstream of a request: the override of the resource that serves it
\* when it has one, the default upstream otherwise
upstreamOf(cfg, path) ==
    LET i == matchResource(cfg.Resources, path)
    IN  IF i # 0 /\ cfg.Resources[i].Upstream # NoUpstream
        THEN cfg.Resources[i].Upstream
        ELSE cfg.Upstream

\* the path sent upstream: the upstream's own path, then the request path
\* without the resource's StripBasePath
upstreamPath(cfg, path) ==
    LET i == matchResource(cfg.Resources, path)
    IN  upstreamOf(cfg, path).path
           \o (IF i # 0 THEN TrimPrefix(path, cfg.Resources[i].StripBasePath) ELSE path)

\* the overrides a resource may configure, and the requests of TestUpstreams
\* with one for the resource that has no override
UpstreamOverrides ==
    { NoUpstream,
      UpstreamURL(e2eUpstreamsUpstreamListener1, e2eUpstreamsUpstreamURL1),
      UpstreamURL(e2eUpstreamsUpstreamListener2, e2eUpstreamsUpstreamURL2) }

UpstreamConfigs ==
    { [Upstream |-> UpstreamURL(e2eUpstreamsUpstreamListener3, <<>>),
       Resources |-> << UpstreamResource(<<"fake">>, u1, s1),
                        UpstreamResource(<<"another-fake">>, u2, <<>>),
                        UpstreamResource(<<"again-a-fake">>, u3, <<>>) >>] :
      u1 \in UpstreamOverrides, u2 \in UpstreamOverrides, u3 \in UpstreamOverrides,
      s1 \in { <<>>, <<"fake">> } }

UpstreamRequests ==
    { <<"fake">>, <<"another-fake">>, <<"again-a-fake">>,
      e2eUpstreamsUpstreamURL3, e2eUpstreamsUpstreamURL2 }

RouteInit ==
    /\ config \in UpstreamConfigs
    /\ \E p \in UpstreamRequests : req = [Method |-> "GET", URL |-> [Path |-> p]]
    /\ resource = Resource(<<>>, FALSE, <<>>, FALSE)
    /\ now = 0
    /\ CookiesIdle
    /\ resp = <<>>
    /\ pc = "proxy"
    /\ scope = NoScope
    /\ status = 0
    /\ header = {}
    /\ skipCheck = FALSE
    /\ csrf = "none"
    /\ fwd = <<>>
    /\ trace = <<>>
    /\ auth = NoAuth
    /\ adm = <<>>
    /\ upstream = 0
    /\ secure = "none"
    /\ keep = <<>>
    /\ SharedIdle

\* the proxy forwards the request and relays the upstream's answer
RouteUpstream ==
    /\ pc = "proxy"
    /\ upstream = 0
    /\ LET host == upstreamOf(config, req.URL.Path).host
           path == upstreamPath(config, req.URL.Path)
           body == runTestUpstream(host, path)
       IN  /\ fwd' = [host |-> host, path |-> path, body |-> body]
           /\ status' = IF body = <<>> THEN 404 ELSE 200
    /\ upstream' = 1
    /\ pc' = "done"
    /\ UNCHANGED <<config, now, keep, req, resp, cookieVars, sharedVars, resource, scope, header, skipCheck, csrf, trace, auth, adm, secure>>

RouteNext == RouteUpstream

RouteSpec == RouteInit /\ [][RouteNext]_vars

Routed == pc = "done" /\ upstream = 1

\* the resources whose URL matches the request's path
Matching == { i \in 1..Len(config.Resources) :
                 HasPrefix(req.URL.Path, config.Resources[i].URL) }

Overriding == { i \in Matching : config.Resources[i].Upstream # NoUpstream }

\* C27: a request that passed the chain is forwarded to the upstream override
\* of the resource whose URL matches its path when that resource configures
\* one, and to the default upstream otherwise; a path that matches no resource
\* with an override never reaches another resource's upstream.  Under the
\* configuration of testBuildUpstreamsConfig the answers are those that
\* TestUpstreams expects.
C27_UpstreamRouting ==
    Routed =>
        /\ \A i \in Overriding : fwd.host = config.Resources[i].Upstream.host
        /\ Overriding = {} =>
              /\ fwd.host = config.Upstream.host
              /\ \A i \in 1..Len(config.Resources) :
                    fwd.host # config.Resources[i].Upstream.host
        /\ config = testBuildUpstreamsConfig =>
              /\ req.URL.Path = <<"fake">> => status = 200 /\ fwd.body = <<"mark1">>
              /\ req.URL.Path = <<"another-fake">> => status = 200 /\ fwd.body = <<"mark2">>
              /\ req.URL.Path = e2eUpstreamsUpstreamURL3 =>
                    status = 200 /\ fwd.body = <<"mark3">>
              /\ req.URL.Path = e2eUpstreamsUpstreamURL2 =>
                    status = 404 /\ fwd.host = e2eUpstreamsUpstreamListener3

\* "/api2" matches no resource although the second resource's upstream serves
\* a path under "/api2": the default upstream answers, with a 404
C27_Witness ==
    /\ Routed
    /\ config = testBuildUpstreamsConfig
    /\ req.URL.Path = e2eUpstreamsUpstreamURL2
    /\ fwd.host = e2eUpstreamsUpstreamListener3
    /\ status = 404

(***************************************************************************)
(* Terminal decisions and the later stages (Spec).                          *)
(***************************************************************************)
\* the security, authentication or admission stage has decided a redirect to
\* authorization, a 403 or a 500 for the request
TerminalDecision ==
    \/ secure = "failed"
    \/ auth.decision \in {"redirect", "forbidden", "error"}
    \/ adm # <<>> /\ ~adm[Len(adm)].ok

\* C28: once the security, authentication or admission stage has decided a
\* redirect to authorization, a 403 or a 500, scope.AccessDenied is true in
\* every state of the request from then on, hence in every stage that runs
\* after the decision; the denied request is never sent upstream.
C28_TerminalDecisionDenies ==
    TerminalDecision => scope.AccessDenied /\ status # 0 /\ upstream = 0

\* authentication sent the request to authorization, and the stages after it
\* have run with the request denied
C28_Witness ==
    /\ secure = "passed"
    /\ auth.decision = "redirect"
    /\ Ran("admission") /\ Ran("identityHeaders") /\ Ran("proxy")
    /\ pc = "done"
    /\ scope.AccessDenied
    /\ status = 302
    /\ upstream = 0

(***************************************************************************)
(* The chunk budget and the attributes of the cookie dropped (CookieSpec).  *)
(***************************************************************************)
\* the domain the claim subtracts: the configured one, else the Host without
\* its port
BudgetDomain ==
    IF config.CookieDomain # <<>> THEN config.CookieDomain ELSE SplitFirst(req.Host, ":")

\* the budget as the claim states it for a drop with time to live ttl
StatedBudget(name, ttl) ==
    MaxCookieSize - Len(name) - Len(BudgetDomain)
      - (IF config.HTTPOnlyCookie THEN Len(HttpOnlyAttr) ELSE 0)
      - (IF ~config.EnableSessionCookies /\ ttl # 0 THEN Len(ExpiresAttr) ELSE 0)
      - (IF config.SecureCookie THEN Len(SecureAttr) ELSE 0)

\* the length the budget leaves for Expires: what remains of 4069 once the
\* name, the domain, HttpOnly and Secure are taken off
ExpiresSubtracted ==
    MaxCookieSize - Len(call.name) - Len(BudgetDomain)
      - (IF config.HTTPOnlyCookie THEN Len(HttpOnlyAttr) ELSE 0)
      - (IF config.SecureCookie THEN Len(SecureAttr) ELSE 0)
      - Budget

\* C29: the budget of a drop is 4069 less the name, the domain, "HttpOnly; "
\* iff HttpOnly is on, the Expires string iff session cookies are off and the
\* time to live is not zero, and "Secure" iff Secure is on; the Expires length
\* is subtracted exactly when the cookie dropped carries an Expires attribute,
\* and the domain subtracted is the domain of the cookie dropped.
C29_ChunkBudget ==
    (Dropped /\ Len(resp) > 0) =>
        /\ Budget = StatedBudget(call.name, call.duration)
        /\ ExpiresSubtracted = Len(ExpiresAttr) <=> ~resp[1].Expires.IsZero
        /\ resp[1].Domain = BudgetDomain

(***************************************************************************)
(* A browser session (JarSpec): the envelopes are dropped again and again   *)
(* for one browser, which keeps the cookies of every response in its jar    *)
(* and sends the jar with its next request.  req.Cookies is the jar.        *)
(***************************************************************************)
MaxDrops == 2

\* the browser stores one response cookie: it replaces the jar's cookie of
\* the same name, or is added to the jar
RECURSIVE jarSet(_, _)
jarSet(jar, c) ==
    IF jar = <<>> THEN <<[Name |-> c.Name, Value |-> c.Value]>>
    ELSE IF Head(jar).Name = c.Name
    THEN <<[Name |-> c.Name, Value |-> c.Value]>> \o Tail(jar)
    ELSE <<Head(jar)>> \o jarSet(Tail(jar), c)

\* the jar after the Set-Cookie headers w of a response, taken in order
RECURSIVE jarStore(_, _)
jarStore(jar, w) ==
    IF w = <<>> THEN jar ELSE jarStore(jarSet(jar, Head(w)), Tail(w))

\* the lengths dropped for a budget of max: one, two and three cookies
JarLens(max) == {1, max, max + 1, 2 * max + 1}

JarInit ==
    /\ \E http \in BOOLEAN, session \in BOOLEAN :
          config = [CookieDomain |-> <<>>, HTTPOnlyCookie |-> http, SecureCookie |-> FALSE,
                    EnableSessionCookies |-> session,
                    CookieAccessName |-> AccessName, CookieRefreshName |-> RefreshName]
    /\ \E host \in Hosts : req = [Host |-> host, Cookies |-> <<>>]
    /\ now = 0
    /\ phase = "idle"
    /\ call = NoCall
    /\ resp = <<>>
    /\ panicked = FALSE
    /\ ChainOff

\* one response drops the access envelope, the browser stores its cookies
JarDropAccessToken ==
    /\ Len(trace) < MaxDrops
    /\ \E n \in JarLens(getMaxCookieChunkLength(req.Host, config.CookieAccessName)) :
          LET r == dropAccessTokenCookie(<<>>, req.Host, Bytes(n), 30 * 60) IN
          /\ call' = [op |-> "drop", name |-> config.CookieAccessName,
                      value |-> Bytes(n), duration |-> 30 * 60]
          /\ resp' = r.w
          /\ panicked' = r.panic
          /\ req' = [req EXCEPT !.Cookies = jarStore(@, r.w)]
    /\ trace' = Append(trace, call')
    /\ phase' = "handled"
    /\ UNCHANGED <<config, now, keep, sharedVars, pc, resource, scope, status, header, skipCheck, csrf, fwd, auth, adm, upstream, secure>>

\* one response drops the refresh envelope, the browser stores its cookies
JarDropRefreshToken ==
    /\ Len(trace) < MaxDrops
    /\ \E n \in JarLens(getMaxCookieChunkLength(req.Host, config.CookieRefreshName)) :
          LET r == dropRefreshTokenCookie(<<>>, req.Host, Bytes(n), 30 * 60) IN
          /\ call' = [op |-> "drop", name |-> config.CookieRefreshName,
                      value |-> Bytes(n), duration |-> 30 * 60]
          /\ resp' = r.w
          /\ panicked' = r.panic
          /\ req' = [req EXCEPT !.Cookies = jarStore(@, r.w)]
    /\ trace' = Append(trace, call')
    /\ phase' = "handled"
    /\ UNCHANGED <<config, now, keep, sharedVars, pc, resource, scope, status, header, skipCheck, csrf, fwd, auth, adm, upstream, secure>>

JarNext == JarDropAccessToken \/ JarDropRefreshToken

JarSpec == JarInit /\ [][JarNext]_vars

\* C30: after any sequence of drops into a browser's jar, reading the
\* envelope last dropped from the jar (the cookie itself, then -1, -2, ... up
\* to the first missing index) gives the value of that last drop; a drop of
\* fewer cookies than the one before leaves no stale chunk that is appended.
C30_JarReadsLastDrop ==
    Dropped => readEnvelope(req.Cookies, call.name) = [found |-> TRUE, value |-> call.value]

(***************************************************************************)
(* The identity headers and the verification of the token (Spec).           *)
(***************************************************************************)
\* the identity headers step has stamped the request with the token of the
\* scope's identity
Stamped ==
    /\ Ran("identityHeaders")
    /\ ~scope.Identity.isNil
    /\ "X-Auth-Token" \in DOMAIN fwd
    /\ fwd["X-Auth-Token"] = scope.Identity.token

\* the token of the identity passed verification, or came from a refresh, or
\* verification is switched off
Established ==
    \/ config.SkipTokenVerification
    \/ auth.verifyCalls = 1 /\ auth.verifyErr = Nil
    \/ auth.refreshCalls = 1 /\ auth.refreshErr = Nil

\* C31: the identity headers are stamped on a request only from an identity
\* whose token passed verification, was refreshed, or is taken unverified
\* under skip-token-verification; a request whose token failed verification
\* or whose scope is denied never carries identity headers of that token.
C31_HeadersOnlyFromVerified ==
    Stamped => Established /\ ~scope.AccessDenied

\* the request has left the authentication stage and is not denied
PassedAuthentication == Ran("authentication") /\ ~scope.AccessDenied

\* C32: with required scopes configured and skip-token-verification off,
\* every request that leaves the authentication stage not denied carries an
\* identity whose current access token has every required scope, also when
\* a refresh replaced the access token during the stage.
C32_ScopesAfterAuthentication ==
    (PassedAuthentication /\ Len(config.RequiredScopes) > 0 /\ ~config.SkipTokenVerification)
        => ~scope.Identity.isNil /\ HasRequiredScopes(scope.Identity.token)

(***************************************************************************)
(* The chunk budget for long hosts and domains (BudgetSpec): the envelopes  *)
(* are dropped for requests whose Host, or for a configuration whose cookie *)
(* domain, is as long as the whole cookie size.                             *)
(***************************************************************************)
MaxValueLen == 2

\* a host name of n characters
LongName(n) == [i \in 1..n |-> "a"]

\* the lengths of the Host and of the cookie domain: short, and around the
\* lengths that leave nothing of 4069 with every attribute on and with none
HostLens == {4, MaxCookieSize - 62, MaxCookieSize - 61, MaxCookieSize - 6, MaxCookieSize - 5}

\* the Host headers: the long names, and two hosts in dotted decimal, of
\* which 01.1.1.1 is no IP address and no domain name
BudgetHosts ==
    {LongName(h) : h \in HostLens}
        \cup {<<"1", ".", "1", ".", "1", ".", "1">>, <<"0", "1", ".", "1", ".", "1", ".", "1">>}

\* the values dropped: encoded text of up to MaxValueLen bytes, and two
\* values with bytes a cookie value does not carry as they are
BudgetValues ==
    {Bytes(n) : n \in 0..MaxValueLen} \cup {<<"a", ";", "b">>, <<"a", " ", "b">>}

\* the configured names of the refresh cookie: the second is no valid cookie
\* name
BudgetNames == {RefreshName, BadName}

BudgetInit ==
    /\ \E d \in {0, MaxCookieSize - 6}, http \in BOOLEAN, sec \in BOOLEAN, session \in BOOLEAN,
          name \in BudgetNames :
          config = [CookieDomain |-> LongName(d), HTTPOnlyCookie |-> http,
                    SecureCookie |-> sec, EnableSessionCookies |-> session,
                    CookieAccessName |-> AccessName, CookieRefreshName |-> name]
    /\ now = 0
    /\ phase = "idle"
    /\ req = [Host |-> <<>>, Cookies |-> <<>>]
    /\ call = NoCall
    /\ resp = <<>>
    /\ panicked = FALSE
    /\ ChainOff

BudgetDropAccessToken ==
    /\ phase = "idle"
    /\ \E host \in BudgetHosts, value \in BudgetValues :
          LET r == dropAccessTokenCookie(<<>>, host, value, 30 * 60) IN
          /\ req' = [Host |-> host, Cookies |-> <<>>]
          /\ call' = [op |-> "drop", name |-> config.CookieAccessName,
                      value |-> value, duration |-> 30 * 60]
          /\ resp' = r.w
          /\ panicked' = r.panic
    /\ phase' = "handled"
    /\ UNCHANGED <<config, now, chainVars, sharedVars>>

BudgetDropRefreshToken ==
    /\ phase = "idle"
    /\ \E host \in BudgetHosts, value \in BudgetValues :
          LET r == dropRefreshTokenCookie(<<>>, host, value, 30 * 60) IN
          /\ req' = [Host |-> host, Cookies |-> <<>>]
          /\ call' = [op |-> "drop", name |-> config.CookieRefreshName,
                      value |-> value, duration |-> 30 * 60]
          /\ resp' = r.w
          /\ panicked' = r.panic
    /\ phase' = "handled"
    /\ UNCHANGED <<config, now, chainVars, sharedVars>>

BudgetNext == BudgetDropAccessToken \/ BudgetDropRefreshToken

BudgetSpec == BudgetInit /\ [][BudgetNext]_vars

\* C33: dropCookieWithChunks ends without a fault for every value and every
\* configuration: the chunk budget is strictly positive for every cookie
\* name and every length of the cookie domain or of the Host.
C33_BudgetPositive ==
    (phase = "handled" /\ call.op = "drop") => ~panicked /\ Budget > 0

=============================================================================
